---- MODULE Spec2Model ----
(***************************************************************************)
(* Authentication and identity lifecycle of the HOMi backend               *)
(* (server/src/modules/auth): AuthService over the users and profiles      *)
(* tables.  Every service method is a request that advances one database   *)
(* round trip (one await) at a time; rows written inside a transaction     *)
(* stay private to the request until commit (PostgreSQL READ COMMITTED).   *)
(***************************************************************************)
EXTENDS Integers, Sequences, FiniteSets, TLC

\* ---------------------------------------------------------------- bounds
MaxUsers  == 3      \* user ids (and profile ids) available to the store
MaxReqs   == 2      \* request slots
MaxTokens == 2      \* secure tokens the random generator hands out
MaxHours  == 25     \* the clock stops after this many hours

\* --------------------------------------------------------- value domains
Null == <<>>

UserIds    == 1..MaxUsers
ProfileIds == 1..MaxUsers
Reqs       == 1..MaxReqs
Tokens     == 1..MaxTokens

\* Strings are sequences of one-character strings, so that toLowerCase,
\* includes, startsWith, slice and LIKE work on them as they do in the code.
EmailA1 == <<"a", "@", "x">>
EmailA2 == <<"A", "@", "x">>
EmailB  == <<"b", "@", "x">>
Emails  == {EmailA1, EmailA2, EmailB}

GOOGLE_OAUTH_USER == <<"G", "O", "O", "G", "L", "E", "_", "O", "A", "U", "T", "H", "_", "U", "S", "E", "R">>
Password1 == <<"P", "w", "1">>
Password2 == <<"P", "w", "2">>
Passwords == {Password1, Password2}
SignupPasswords == {Password1}
LoginPasswords == Passwords \cup {GOOGLE_OAUTH_USER}

SignupRoles == {"LANDLORD"}

PhoneLocal == <<"0", "1", "0", "0", "0", "0", "0", "0", "0", "1">>
PhoneIntl  == <<"+", "2", "0", "1", "0", "0", "0", "0", "0", "0", "0", "1">>
PhoneOther == <<"0", "1", "0", "0", "0", "0", "0", "0", "0", "2">>
Phones     == {PhoneLocal, PhoneOther}
LoginPhones == {PhoneIntl, PhoneOther}

NationalIds == {<<"2", "9", "8">>}
Genders     == {"MALE"}
Birthdates  == {<<"1", "9", "9", "8">>}

\* ------------------------------------------------------ string functions
LowerChar(c) ==
    CASE c = "A" -> "a"
      [] c = "B" -> "b"
      [] c = "X" -> "x"
      [] OTHER -> c

\* String.prototype.toLowerCase
toLowerCase(s) == [i \in DOMAIN s |-> LowerChar(s[i])]

\* String.prototype.includes, for a one-character needle
includes(s, c) == \E i \in DOMAIN s : s[i] = c

\* String.prototype.startsWith, for a one-character prefix
startsWith(s, c) == Len(s) >= 1 /\ s[1] = c

\* String.prototype.slice(n)
slice(s, n) == SubSeq(s, n + 1, Len(s))

\* String.prototype.trim
RECURSIVE trimStart(_)
trimStart(s) == IF s # <<>> /\ Head(s) = " " THEN trimStart(Tail(s)) ELSE s
RECURSIVE trimEnd(_)
trimEnd(s) ==
    IF s # <<>> /\ s[Len(s)] = " " THEN trimEnd(SubSeq(s, 1, Len(s) - 1)) ELSE s
trim(s) == trimEnd(trimStart(s))

\* SQL LIKE: % matches any run of characters, _ any one character
RECURSIVE Like(_, _)
Like(s, pattern) ==
    IF pattern = <<>> THEN s = <<>>
    ELSE IF Head(pattern) = "%"
         THEN Like(s, Tail(pattern)) \/ (s # <<>> /\ Like(Tail(s), pattern))
         ELSE /\ s # <<>>
              /\ (Head(pattern) = "_" \/ Head(pattern) = Head(s))
              /\ Like(Tail(s), Tail(pattern))

Min(a, b) == IF a <= b THEN a ELSE b

\* case folding of the two-case letters of the model, for stating
\* "equal ignoring letter case"
FoldChar(c) ==
    CASE c = "a" -> "A"
      [] c = "b" -> "B"
      [] c = "x" -> "X"
      [] OTHER -> c
SameIgnoringCase(s, t) ==
    /\ Len(s) = Len(t)
    /\ \A i \in DOMAIN s : FoldChar(s[i]) = FoldChar(t[i])

\* ------------------------------------------------------------ hashing
\* bcrypt.hash / bcrypt.compare: a salted one-way digest that verifies
\* exactly the plaintext it was made from
bcryptHash(pw) == <<"bcrypt", pw>>
bcryptCompare(candidate, digest) == digest = bcryptHash(candidate)

\* mutant: every token hashes to the same digest
hashToken_Collides(t) == <<"sha256", 0>>

\* crypto.createHash('sha256').update(token).digest('hex')
hashToken(t) == <<"sha256", t>>

\* ------------------------------------------------------------ AES-256-GCM
IV_LENGTH == 16
AUTH_TAG_LENGTH == 16

\* new Error(message), and a value returned
Error(message) == [ok |-> FALSE, message |-> message]
Returned(value) == [ok |-> TRUE, value |-> value]

\* Characters outside ASCII are written by their code point: U+00E9 takes two
\* bytes in UTF-8, U+D800 is an unpaired surrogate code unit, U+FFFD the
\* replacement character.
Utf8Of(c) ==
    CASE c = "2" -> <<50>>
      [] c = "8" -> <<56>>
      [] c = "9" -> <<57>>
      [] c = ":" -> <<58>>
      [] c = "a" -> <<97>>
      [] c = "U+00E9" -> <<195, 169>>
      [] OTHER -> <<239, 191, 189>>

\* the bytes cipher.update(plaintext, 'utf8', ...) reads: an unpaired
\* surrogate is written as the replacement character
RECURSIVE utf8Encode(_)
utf8Encode(s) == IF s = <<>> THEN <<>> ELSE Utf8Of(s[1]) \o utf8Encode(Tail(s))

\* the string decipher.update(..., 'utf8') and final('utf8') build
RECURSIVE utf8Decode(_)
utf8Decode(b) ==
    IF b = <<>> THEN <<>>
    ELSE IF b[1] < 128
    THEN <<CHOOSE c \in {"2", "8", "9", ":", "a", "?"} :
             IF b[1] \in {50, 56, 57, 58, 97} THEN Utf8Of(c) = <<b[1]>> ELSE c = "?">>
         \o utf8Decode(Tail(b))
    ELSE IF Len(b) >= 2 /\ SubSeq(b, 1, 2) = <<195, 169>>
    THEN <<"U+00E9">> \o utf8Decode(SubSeq(b, 3, Len(b)))
    ELSE IF Len(b) >= 3 /\ SubSeq(b, 1, 3) = <<239, 191, 189>>
    THEN <<"U+FFFD">> \o utf8Decode(SubSeq(b, 4, Len(b)))
    ELSE <<"U+FFFD">> \o utf8Decode(Tail(b))

HexDigits == <<"0", "1", "2", "3", "4", "5", "6", "7", "8", "9", "a", "b", "c", "d", "e", "f">>

\* buffer.toString('hex')
toHex(bytes) ==
    [i \in 1..(2 * Len(bytes)) |->
        HexDigits[1 + (IF i % 2 = 1 THEN bytes[(i + 1) \div 2] \div 16
                                    ELSE bytes[i \div 2] % 16)]]

\* the value of a hex digit of either case, -1 for any other character
HexValue(c) ==
    CASE c = "0" -> 0 [] c = "1" -> 1 [] c = "2" -> 2 [] c = "3" -> 3
      [] c = "4" -> 4 [] c = "5" -> 5 [] c = "6" -> 6 [] c = "7" -> 7
      [] c = "8" -> 8 [] c = "9" -> 9
      [] c \in {"a", "A"} -> 10 [] c \in {"b", "B"} -> 11 [] c \in {"c", "C"} -> 12
      [] c \in {"d", "D"} -> 13 [] c \in {"e", "E"} -> 14 [] c \in {"f", "F"} -> 15
      [] OTHER -> -1

\* Buffer.from(text, 'hex'): the bytes of the leading pairs of hex digits;
\* decoding stops at the first pair that is not hex
fromHex(text) ==
    LET bad == {i \in DOMAIN text : HexValue(text[i]) < 0}
        n == IF bad = {} THEN Len(text) \div 2
             ELSE ((CHOOSE i \in bad : \A j \in bad : i <= j) - 1) \div 2
    IN  [i \in 1..n |-> 16 * HexValue(text[2 * i - 1]) + HexValue(text[2 * i])]

\* createCipheriv / createDecipheriv under the configured key: the output is
\* the input XOR a key stream derived from the iv, and the tag is a MAC of
\* the iv and the ciphertext, distinct for distinct (iv, ciphertext) up to 15
\* bytes of ciphertext
aes256gcm(iv, input, decrypting) ==
    LET Bit(x, i) == (x \div (2 ^ i)) % 2
        Xor(a, b) ==
            ((Bit(a, 0) + Bit(b, 0)) % 2) + 2 * ((Bit(a, 1) + Bit(b, 1)) % 2)
            + 4 * ((Bit(a, 2) + Bit(b, 2)) % 2) + 8 * ((Bit(a, 3) + Bit(b, 3)) % 2)
            + 16 * ((Bit(a, 4) + Bit(b, 4)) % 2) + 32 * ((Bit(a, 5) + Bit(b, 5)) % 2)
            + 64 * ((Bit(a, 6) + Bit(b, 6)) % 2) + 128 * ((Bit(a, 7) + Bit(b, 7)) % 2)
        ivAt(i) == iv[1 + ((i - 1) % Len(iv))]
        keyStream(i) == (31 * ivAt(i) + 7 * i + 101) % 256
        output == [i \in 1..Len(input) |-> Xor(input[i], keyStream(i))]
        ciphertext == IF decrypting THEN input ELSE output
        digest(i) == IF i = 1 THEN Len(ciphertext) % 256
                     ELSE IF i - 1 <= Len(ciphertext) THEN ciphertext[i - 1]
                     ELSE 0
        mask(i) == (13 * ivAt(i) + 5 * i + 77) % 256
    IN  [output |-> output,
         authTag |-> [i \in 1..AUTH_TAG_LENGTH |-> Xor(digest(i), mask(i))]]

\* encrypt(plaintext), with iv the bytes crypto.randomBytes(IV_LENGTH) gave:
\* the envelope hex(iv) ':' hex(authTag) ':' hex(ciphertext)
encrypt(plaintext, iv) ==
    LET cipher == aes256gcm(iv, utf8Encode(plaintext), FALSE)
    IN  toHex(iv) \o <<":">> \o toHex(cipher.authTag) \o <<":">> \o toHex(cipher.output)

\* mutant: the tag is never compared
final_Unchecked(authTag, computed) == TRUE

\* decipher.final(): whether the tag that was set authenticates the data
final(authTag, computed) == authTag = computed

\* decrypt after the split: decode the parts, decipher, check the tag
decipher(ivHex, authTagHex, ciphertext) ==
    LET iv == fromHex(ivHex)
        authTag == fromHex(authTagHex)
    IN  IF Len(iv) = 0
        THEN Error("Invalid initialization vector")
        ELSE IF Len(authTag) # AUTH_TAG_LENGTH
        THEN Error("Invalid authentication tag length")
        ELSE LET decrypted == aes256gcm(iv, fromHex(ciphertext), TRUE)
             IN  IF ~final(authTag, decrypted.authTag)
                 THEN Error("Unsupported state or unable to authenticate data")
                 ELSE Returned(utf8Decode(decrypted.output))

\* mutant: the first two parts are read in the wrong order
decrypt_TagFirst(encryptedText) ==
    LET colons == {i \in DOMAIN encryptedText : encryptedText[i] = ":"}
        c1 == CHOOSE i \in colons : \A j \in colons : i <= j
        c2 == CHOOSE i \in colons : \A j \in colons : j <= i
    IN  IF Cardinality(colons) # 2
        THEN Error("Invalid encrypted text format")
        ELSE decipher(SubSeq(encryptedText, c1 + 1, c2 - 1),
                      SubSeq(encryptedText, 1, c1 - 1),
                      SubSeq(encryptedText, c2 + 1, Len(encryptedText)))

\* decrypt(encryptedText): split(':') must give exactly three parts
decrypt(encryptedText) ==
    LET colons == {i \in DOMAIN encryptedText : encryptedText[i] = ":"}
        c1 == CHOOSE i \in colons : \A j \in colons : i <= j
        c2 == CHOOSE i \in colons : \A j \in colons : j <= i
    IN  IF Cardinality(colons) # 2
        THEN Error("Invalid encrypted text format")
        ELSE decipher(SubSeq(encryptedText, 1, c1 - 1),
                      SubSeq(encryptedText, c1 + 1, c2 - 1),
                      SubSeq(encryptedText, c2 + 1, Len(encryptedText)))

\* Profile.getDecryptedNationalId, on the stored (nullable) national_id
getDecryptedNationalId(national_id) ==
    IF national_id = Null \/ national_id = <<Null>> THEN Null
    ELSE IF decrypt(national_id[1]).ok THEN <<decrypt(national_id[1]).value>>
    ELSE Null

\* the values crypto.randomBytes(IV_LENGTH) may give
Nonce(i) == [j \in 1..IV_LENGTH |-> (37 * i + 11 * j) % 256]

\* Milliseconds, as Date.now() counts them
HourMs == 60 * 60 * 1000
ResetTokenTtl  == 60 * 60 * 1000
VerifyTokenTtl == 24 * 60 * 60 * 1000

\* new AuthError(message, statusCode, code)
AuthError(message, statusCode, code) ==
    [ok |-> FALSE, message |-> message, status |-> statusCode, code |-> code]
\* an error that is no AuthError (a Sequelize error reaching the caller)
RawError == [ok |-> FALSE, message |-> "raw", status |-> 500, code |-> "RAW_ERROR"]
Success(message, body) ==
    [ok |-> TRUE, message |-> message, status |-> 200, code |-> "OK", body |-> body]

VARIABLES
    users,      \* committed rows of table users:    id -> row
    profiles,   \* committed rows of table profiles: id -> row
    reqs,       \* request slot -> the call in flight (or Idle)
    now,        \* Date.now()
    minted,     \* history: when generateSecureToken produced token 1, 2, ...
    consumed,   \* history: reset tokens a successful resetPassword used up
    retired,    \* history: <<kind, token, how>> for tokens overwritten by a later
                \* token of their kind, and verification tokens verifyEmail used up
    mode        \* the run's environment: concurrent calls, store faults, clock horizon

vars == <<users, profiles, reqs, now, minted, consumed, retired, mode>>

Idle == [op |-> "idle", pc |-> "idle"]

Call(op, pc, args) ==
    [op |-> op, pc |-> pc, a |-> args, l |-> Null, res |-> Null, last |-> "start",
     mail |-> "none"]

At(r, op, pc) == reqs[r].op = op /\ reqs[r].pc = pc

\* the call returns or throws: its local state is gone (last: history, the
\* step it ended at)
Finish(r, result) ==
    reqs' = [reqs EXCEPT ![r] =
                [@ EXCEPT !.pc = "done", !.l = Null, !.res = result, !.last = reqs[r].pc]]

\* EmailService.sendEmail: true without a transporter (the mock mode) and
\* when the transport accepted the message, false when sendMail threw; it
\* never throws itself
sendEmail(transporter, accepted) == IF ~transporter THEN TRUE ELSE accepted

\* mutant: an undelivered notification fails the call
Notified_Throws(emailSent, response) ==
    IF emailSent THEN response
    ELSE AuthError("Failed to send email", 500, "EMAIL_SEND_FAILED")

\* what the caller of the notification sender returns: it logs a warning
\* when emailSent is false and returns the same response
Notified(emailSent, response) == response

\* the call ends after its notification (mail: history, whether it went out)
FinishNotified(r, response) ==
    \E transporter, accepted \in BOOLEAN :
        reqs' = [reqs EXCEPT ![r] =
                    [@ EXCEPT !.pc = "done", !.l = Null,
                              !.res = Notified(sendEmail(transporter, accepted), response),
                              !.last = reqs[r].pc,
                              !.mail = IF sendEmail(transporter, accepted)
                                       THEN "sent" ELSE "failed"]]

Goto(r, label, locals) ==
    reqs' = [reqs EXCEPT ![r] = [@ EXCEPT !.pc = label, !.l = locals]]

\* ------------------------------------------------------------ the store
\* mutant: the lookup by e-mail finds nothing
UsersByEmail_Blind(email) == {}

\* User.findOne({ where: { email } })
UsersByEmail(email) == {id \in DOMAIN users : users[id].email = email}
\* Profile.findOne({ where: { phone_number } })
ProfilesByPhone(phone) == {p \in DOMAIN profiles : profiles[p].phone_number = phone}
\* include: [{ model: Profile, as: 'profile' }]
ProfilesOf(uid) == {p \in DOMAIN profiles : profiles[p].user_id = uid}
\* User.findOne({ where: { reset_token_hash } })
UsersByResetHash(h) == {id \in DOMAIN users : users[id].reset_token_hash = h}
\* mutant: the verification lookup also matches the reset token column
UsersByVerificationHash_AnyColumn(h) ==
    {id \in DOMAIN users : users[id].email_verification_token_hash = h
                            \/ users[id].reset_token_hash = h}

\* User.findOne({ where: { email_verification_token_hash } })
UsersByVerificationHash(h) ==
    {id \in DOMAIN users : users[id].email_verification_token_hash = h}

\* history: an account with this e-mail, in any letter case, is registered
Registered(email) == \E id \in DOMAIN users : SameIgnoringCase(users[id].email, email)

\* transactions that hold an inserted users row not yet committed
Inserting == {q \in Reqs : reqs[q].pc \in {"createProfile", "commit"}
                           /\ reqs[q].op \in {"register", "google"}}
PendingEmails(r) == {reqs[q].l.user.email : q \in Inserting \ {r}}
PendingUserIds == {reqs[q].l.uid : q \in Inserting}

FreeUserIds == UserIds \ (DOMAIN users \cup PendingUserIds)
FreeProfileIds == ProfileIds \ DOMAIN profiles

LeastOf(S) == CHOOSE x \in S : \A y \in S : x <= y

\* mutant: the users table has no unique index on email
EmailIndexAdmits_NoIndex(email) == TRUE

\* the unique index on users.email (User.init, indexes): whether the
\* committed rows admit one more row with this e-mail
EmailIndexAdmits(email) == UsersByEmail(email) = {}

\* transactions that hold a row lock: completeVerification and updateProfile
\* between their profile.update / user.update and their commit
LockedProfiles(r) ==
    {reqs[q].l.pid : q \in {x \in Reqs \ {r} :
        \/ reqs[x].op = "completeVerification" /\ reqs[x].pc \in {"updateUser", "commit"}
        \/ reqs[x].op = "updateProfile" /\ reqs[x].pc = "commit"}}
LockedUsers(r) ==
    {reqs[q].l.uid : q \in {x \in Reqs \ {r} :
        reqs[x].op = "completeVerification" /\ reqs[x].pc = "commit"}}

\* mutant: a new row is created fully verified
NewUser_FullyVerified(email, password, role, emailVerified, origin) ==
    [email |-> email,
     password_hash |-> bcryptHash(password),
     role |-> role,
     is_verified |-> TRUE,
     email_verified |-> emailVerified,
     reset_token_hash |-> Null,
     reset_token_expires |-> Null,
     email_verification_token_hash |-> Null,
     email_verification_token_expires |-> Null,
     origin |-> origin,
     plain |-> password]

\* User.init defaults and the beforeCreate hook, which hashes password_hash
NewUser(email, password, role, emailVerified, origin) ==
    [email |-> email,
     password_hash |-> bcryptHash(password),
     role |-> role,
     is_verified |-> FALSE,
     email_verified |-> emailVerified,
     reset_token_hash |-> Null,
     reset_token_expires |-> Null,
     email_verification_token_hash |-> Null,
     email_verification_token_expires |-> Null,
     origin |-> origin,          \* history: the operation that created the row
     plain |-> password]         \* history: the string password_hash was last set from

\* Profile.init defaults; the beforeCreate hook finds no national_id to encrypt
NewProfile(uid, phone) ==
    [user_id |-> uid,
     phone_number |-> phone,
     national_id |-> Null,
     gender |-> Null,
     birthdate |-> Null,
     preferred_budget_min |-> Null,
     preferred_budget_max |-> Null]

\* Profile.isVerificationComplete
isVerificationComplete(p) ==
    p.national_id # Null /\ p.gender # Null /\ p.birthdate # Null

\* generateTokenPair(user.id, user.email, user.role)
generateTokenPair(id, email, role) ==
    [accessToken |-> <<"access", id, email, role>>,
     refreshToken |-> <<"refresh", id, email, role>>]

\* the LoginResponse built from a loaded user and its profile
LoginResponse(id, u, p) ==
    [accessToken |-> generateTokenPair(id, u.email, u.role).accessToken,
     refreshToken |-> generateTokenPair(id, u.email, u.role).refreshToken,
     user |-> [id |-> id, email |-> u.email, role |-> u.role,
               isVerified |-> u.is_verified, emailVerified |-> u.email_verified],
     profile |-> [userId |-> p.user_id, phoneNumber |-> p.phone_number,
                  gender |-> p.gender, birthdate |-> p.birthdate,
                  isVerificationComplete |-> isVerificationComplete(p)]]

\* the tail of login and loginWithGoogle: tokens, then the profile check
Respond(r, uid, u) ==
    IF ProfilesOf(uid) = {}
    THEN Finish(r, AuthError("User profile not found", 500, "PROFILE_NOT_FOUND"))
    ELSE \E p \in ProfilesOf(uid) :
            Finish(r, Success("login", LoginResponse(uid, u, profiles[p])))

\* mutant: a stored token never expires
TokenExpired_Never(expires, at) == FALSE

\* a reset or verification token is past its stored expiry
TokenExpired(expires, at) == expires = Null \/ expires[1] < at

\* ------------------------------------------------------------- register
RegisterStart(r) ==
    /\ reqs[r] = Idle /\ r <= mode.conc
    /\ \E email \in Emails, password \in SignupPasswords, role \in SignupRoles,
          phone \in Phones :
         reqs' = [reqs EXCEPT ![r] =
            Call("register", "findEmail",
                 [email |-> email, password |-> password, role |-> role,
                  phone |-> phone,
                  known |-> Registered(email)])]
    /\ UNCHANGED <<users, profiles, now, minted, consumed, retired, mode>>

RegisterFindEmail(r) ==
    /\ At(r, "register", "findEmail")
    /\ IF UsersByEmail(toLowerCase(reqs[r].a.email)) # {}
       THEN Finish(r, AuthError("Email already registered", 409, "EMAIL_EXISTS"))
       ELSE Goto(r, "findPhone", Null)
    /\ UNCHANGED <<users, profiles, now, minted, consumed, retired, mode>>

RegisterFindPhone(r) ==
    /\ At(r, "register", "findPhone")
    /\ IF ProfilesByPhone(reqs[r].a.phone) # {}
       THEN Finish(r, AuthError("Phone number already registered", 409, "PHONE_EXISTS"))
       ELSE Goto(r, "createUser", Null)
    /\ UNCHANGED <<users, profiles, now, minted, consumed, retired, mode>>

\* User.create inside the transaction: the insert waits for an open
\* transaction holding the same e-mail, and fails on a committed duplicate
RegisterCreateUser(r) ==
    /\ At(r, "register", "createUser")
    /\ toLowerCase(reqs[r].a.email) \notin PendingEmails(r)
    /\ FreeUserIds # {}
    /\ \E fails \in {FALSE, mode.faults} :
         IF fails \/ ~EmailIndexAdmits(toLowerCase(reqs[r].a.email))
         THEN Finish(r, AuthError("Registration failed. Please try again.", 500,
                                  "REGISTRATION_FAILED"))
         ELSE Goto(r, "createProfile",
                   [uid |-> LeastOf(FreeUserIds),
                    user |-> NewUser(toLowerCase(reqs[r].a.email), reqs[r].a.password,
                                     reqs[r].a.role, FALSE, "register")])
    /\ UNCHANGED <<users, profiles, now, minted, consumed, retired, mode>>

\* mutant: no rollback, the users row inserted before the failure stays
RolledBack_Kept(uid, user) == users @@ (uid :> user)

\* what the transaction leaves in the store when Profile.create throws:
\* transaction.rollback() discards the users row inserted before it
RolledBack(uid, user) == users

RegisterCreateProfile(r) ==
    /\ At(r, "register", "createProfile")
    /\ \E fails \in {FALSE, mode.faults} :
         IF fails
         THEN /\ Finish(r, AuthError("Registration failed. Please try again.", 500,
                                     "REGISTRATION_FAILED"))
              /\ users' = RolledBack(reqs[r].l.uid, reqs[r].l.user)
         ELSE /\ Goto(r, "commit",
                      [uid |-> reqs[r].l.uid, user |-> reqs[r].l.user,
                       profile |-> NewProfile(reqs[r].l.uid, reqs[r].a.phone)])
              /\ users' = users
    /\ UNCHANGED <<profiles, now, minted, consumed, retired, mode>>

\* transaction.commit(): both rows become visible at once
CommitInsert(l) ==
    /\ users' = users @@ (l.uid :> l.user)
    /\ profiles' = profiles @@ (LeastOf(FreeProfileIds) :> l.profile)

RegisterCommit(r) ==
    /\ At(r, "register", "commit")
    /\ FreeProfileIds # {}
    /\ CommitInsert(reqs[r].l)
    /\ Finish(r, Success("Registration successful", Null))
    /\ UNCHANGED <<now, minted, consumed, retired, mode>>

\* ---------------------------------------------------------------- login
LoginIdentifiers == {EmailA2, EmailB} \cup LoginPhones

LoginStart(r) ==
    /\ reqs[r] = Idle /\ r <= mode.conc
    /\ \E identifier \in LoginIdentifiers, password \in LoginPasswords :
         reqs' = [reqs EXCEPT ![r] =
            Call("login", IF includes(identifier, "@") THEN "findUser" ELSE "findProfile",
                 [identifier |-> identifier, password |-> password])]
    /\ UNCHANGED <<users, profiles, now, minted, consumed, retired, mode>>

\* mutant: an international identifier is looked up as written only
possibleVariants_ExactOnly(phoneInput) == {phoneInput}

\* the local forms '0' + localPart tried for an international phoneInput
possibleVariants(phoneInput) ==
    LET digitsOnly == slice(phoneInput, 1)
    IN  {phoneInput} \cup
        {<<"0">> \o slice(digitsOnly, i) :
            i \in {j \in 1..Min(4, Len(digitsOnly) - 1) : Len(slice(digitsOnly, j)) >= 9}}

\* the where clause of Profile.findOne in login, for one stored phone_number
PhoneMatches(stored, phoneInput) ==
    IF startsWith(phoneInput, "+")
    THEN stored \in possibleVariants(phoneInput)
    ELSE IF startsWith(phoneInput, "0")
         THEN stored = phoneInput
              \/ Like(stored, <<"+", "%">> \o slice(phoneInput, 1))
         ELSE stored = phoneInput

ProfilesByLoginPhone(identifier) ==
    {p \in DOMAIN profiles : PhoneMatches(profiles[p].phone_number, trim(identifier))}

\* the error login throws when no user was found
UserNotFound == AuthError("Invalid credentials", 401, "INVALID_CREDENTIALS")
\* mutant: a wrong password is reported by an error of its own
PasswordMismatch_Distinct == AuthError("Incorrect password", 401, "WRONG_PASSWORD")

\* the error login throws when comparePassword fails
PasswordMismatch == AuthError("Invalid credentials", 401, "INVALID_CREDENTIALS")

LoginFindProfile(r) ==
    /\ At(r, "login", "findProfile")
    /\ IF ProfilesByLoginPhone(reqs[r].a.identifier) = {}
       THEN Finish(r, UserNotFound)
       ELSE \E p \in ProfilesByLoginPhone(reqs[r].a.identifier) :
               Goto(r, "findUser", [uid |-> profiles[p].user_id])
    /\ UNCHANGED <<users, profiles, now, minted, consumed, retired, mode>>

\* mutant: the comparison accepts any candidate
comparePassword_Any(u, candidatePassword) == TRUE

\* user.comparePassword(input.password)
comparePassword(u, candidatePassword) == bcryptCompare(candidatePassword, u.password_hash)

LoginFindUser(r) ==
    /\ At(r, "login", "findUser")
    /\ LET found == IF includes(reqs[r].a.identifier, "@")
                    THEN UsersByEmail(toLowerCase(reqs[r].a.identifier))
                    ELSE {reqs[r].l.uid} \cap DOMAIN users
       IN  IF found = {}
           THEN Finish(r, UserNotFound)
           ELSE \E uid \in found :
                   IF ~comparePassword(users[uid], reqs[r].a.password)
                   THEN Finish(r, PasswordMismatch)
                   ELSE Respond(r, uid, users[uid])
    /\ UNCHANGED <<users, profiles, now, minted, consumed, retired, mode>>

\* -------------------------------------------------- completeVerification
CompleteVerificationStart(r) ==
    /\ reqs[r] = Idle /\ r <= mode.conc
    /\ \E userId \in UserIds, nationalId \in NationalIds, gender \in Genders,
          birthdate \in Birthdates :
         reqs' = [reqs EXCEPT ![r] =
            Call("completeVerification", "find",
                 [userId |-> userId, nationalId |-> nationalId, gender |-> gender,
                  birthdate |-> birthdate])]
    /\ UNCHANGED <<users, profiles, now, minted, consumed, retired, mode>>

\* mutant: the e-mail verification check is missing
VerificationGuard_NoEmailCheck(uid) ==
    IF uid \notin DOMAIN users
    THEN AuthError("User not found", 404, "USER_NOT_FOUND")
    ELSE IF users[uid].is_verified
    THEN AuthError("Account is already verified", 400, "ALREADY_VERIFIED")
    ELSE IF ProfilesOf(uid) = {}
    THEN AuthError("Profile not found", 404, "PROFILE_NOT_FOUND")
    ELSE Null

\* mutant: the already-verified check is missing
VerificationGuard_NoVerifiedCheck(uid) ==
    IF uid \notin DOMAIN users
    THEN AuthError("User not found", 404, "USER_NOT_FOUND")
    ELSE IF ~users[uid].email_verified
    THEN AuthError("Please verify your email address first", 400, "EMAIL_NOT_VERIFIED")
    ELSE IF ProfilesOf(uid) = {}
    THEN AuthError("Profile not found", 404, "PROFILE_NOT_FOUND")
    ELSE Null

\* the checks of completeVerification on the loaded user, in their order
VerificationGuard(uid) ==
    IF uid \notin DOMAIN users
    THEN AuthError("User not found", 404, "USER_NOT_FOUND")
    ELSE IF users[uid].is_verified
    THEN AuthError("Account is already verified", 400, "ALREADY_VERIFIED")
    ELSE IF ~users[uid].email_verified
    THEN AuthError("Please verify your email address first", 400, "EMAIL_NOT_VERIFIED")
    ELSE IF ProfilesOf(uid) = {}
    THEN AuthError("Profile not found", 404, "PROFILE_NOT_FOUND")
    ELSE Null

CompleteVerificationFind(r) ==
    /\ At(r, "completeVerification", "find")
    /\ IF VerificationGuard(reqs[r].a.userId) # Null
       THEN Finish(r, VerificationGuard(reqs[r].a.userId))
       ELSE \E p \in ProfilesOf(reqs[r].a.userId) :
               Goto(r, "updateProfile", [uid |-> reqs[r].a.userId, pid |-> p])
    /\ UNCHANGED <<users, profiles, now, minted, consumed, retired, mode>>

VerificationFailed == AuthError("Verification failed. Please try again.", 500, "VERIFICATION_FAILED")

\* profile.update in the transaction (the beforeUpdate hook encrypts national_id)
CompleteVerificationUpdateProfile(r) ==
    /\ At(r, "completeVerification", "updateProfile")
    /\ reqs[r].l.pid \notin LockedProfiles(r)
    /\ \E fails \in {FALSE, mode.faults} :
         IF fails THEN Finish(r, VerificationFailed)
         ELSE Goto(r, "updateUser", reqs[r].l)
    /\ UNCHANGED <<users, profiles, now, minted, consumed, retired, mode>>

\* user.update({ is_verified: true }) in the transaction
CompleteVerificationUpdateUser(r) ==
    /\ At(r, "completeVerification", "updateUser")
    /\ reqs[r].l.uid \notin LockedUsers(r)
    /\ \E fails \in {FALSE, mode.faults} :
         IF fails THEN Finish(r, VerificationFailed)
         ELSE Goto(r, "commit", reqs[r].l)
    /\ UNCHANGED <<users, profiles, now, minted, consumed, retired, mode>>

\* crypto.randomBytes(IV_LENGTH): any of the nonces of the run
randomBytes == {Nonce(i) : i \in 1..mode.nonces}

\* the rows the committed transaction of completeVerification leaves
\* mutant: the national ID is stored as it was passed
VerifiedProfile_Plaintext(p, a, iv) ==
    [p EXCEPT !.national_id = <<a.nationalId>>,
              !.gender = <<a.gender>>,
              !.birthdate = <<a.birthdate>>]

VerifiedProfile(p, a, iv) ==
    [p EXCEPT !.national_id = <<encrypt(a.nationalId, iv)>>,
              !.gender = <<a.gender>>,
              !.birthdate = <<a.birthdate>>]

\* mutant: the flag is not set with the profile fields
VerifiedUser_Unflagged(u) == u

\* user.update({ is_verified: true })
VerifiedUser(u) == [u EXCEPT !.is_verified = TRUE]

CompleteVerificationCommit(r) ==
    /\ At(r, "completeVerification", "commit")
    /\ \E iv \in randomBytes :
         profiles' = [profiles EXCEPT ![reqs[r].l.pid] = VerifiedProfile(@, reqs[r].a, iv)]
    /\ users' = [users EXCEPT ![reqs[r].l.uid] = VerifiedUser(@)]
    /\ Goto(r, "welcome", reqs[r].l)
    /\ UNCHANGED <<now, minted, consumed, retired, mode>>

\* emailService.sendWelcomeEmail: delivered or not, the call succeeds
CompleteVerificationWelcome(r) ==
    /\ At(r, "completeVerification", "welcome")
    /\ FinishNotified(r, Success("Verification completed successfully", Null))
    /\ UNCHANGED <<users, profiles, now, minted, consumed, retired, mode>>

\* ------------------------------------------------------- forgotPassword
ForgotPasswordStart(r) ==
    /\ reqs[r] = Idle /\ r <= mode.conc
    /\ Len(minted) < MaxTokens
    /\ \E email \in Emails :
         reqs' = [reqs EXCEPT ![r] = Call("forgotPassword", "find", [email |-> email])]
    /\ UNCHANGED <<users, profiles, now, minted, consumed, retired, mode>>

ForgotPasswordFind(r) ==
    /\ At(r, "forgotPassword", "find")
    /\ IF UsersByEmail(toLowerCase(reqs[r].a.email)) = {}
       THEN Finish(r, AuthError("No account found with this email address", 404,
                                "EMAIL_NOT_FOUND"))
       ELSE \E uid \in UsersByEmail(toLowerCase(reqs[r].a.email)) :
               Goto(r, "update", [uid |-> uid])
    /\ UNCHANGED <<users, profiles, now, minted, consumed, retired, mode>>

\* generateSecureToken(): the next token nobody has seen
FreshToken == Len(minted) + 1

\* tokenExpires of forgotPassword
ResetExpiry(at) == at + ResetTokenTtl

\* history: the tokens whose stored hash a newly minted token overwrites
Overwritten(kind, stored) ==
    {<<kind, t, "superseded">> : t \in {x \in Tokens : hashToken(x) = stored}}

\* generateSecureToken, then user.update({ reset_token_hash, reset_token_expires })
ForgotPasswordUpdate(r) ==
    /\ At(r, "forgotPassword", "update")
    /\ Len(minted) < MaxTokens
    /\ reqs[r].l.uid \notin LockedUsers(r)
    /\ minted' = Append(minted, now)
    /\ \E fails \in {FALSE, mode.faults} :
         IF fails
         THEN Finish(r, RawError) /\ UNCHANGED <<users, retired>>
         ELSE /\ users' = [users EXCEPT ![reqs[r].l.uid] =
                    [@ EXCEPT !.reset_token_hash = hashToken(FreshToken),
                              !.reset_token_expires = <<ResetExpiry(now)>>]]
              /\ retired' = retired \cup
                    Overwritten("reset", users[reqs[r].l.uid].reset_token_hash)
              /\ Goto(r, "send", [uid |-> reqs[r].l.uid, token |-> FreshToken])
    /\ UNCHANGED <<profiles, now, consumed, mode>>

\* emailService.sendPasswordResetEmail: sent or not, the call succeeds
ForgotPasswordSend(r) ==
    /\ At(r, "forgotPassword", "send")
    /\ FinishNotified(r, Success("Password reset email sent. Please check your inbox.", Null))
    /\ UNCHANGED <<users, profiles, now, minted, consumed, retired, mode>>

\* -------------------------------------------------------- resetPassword
ResetPasswordStart(r) ==
    /\ reqs[r] = Idle /\ r <= mode.conc
    /\ \E token \in Tokens, newPassword \in Passwords :
         reqs' = [reqs EXCEPT ![r] =
            Call("resetPassword", "find",
                 [token |-> token, newPassword |-> newPassword,
                  used |-> token \in consumed])]
    /\ UNCHANGED <<users, profiles, now, minted, consumed, retired, mode>>

\* the lookup by hash and the expiry check that follows it
ResetTokenCheck(token, at) ==
    IF UsersByResetHash(hashToken(token)) = {}
    THEN AuthError("Invalid or expired reset token", 400, "INVALID_RESET_TOKEN")
    ELSE IF \A uid \in UsersByResetHash(hashToken(token)) :
               TokenExpired(users[uid].reset_token_expires, at)
    THEN AuthError("Reset token has expired", 400, "RESET_TOKEN_EXPIRED")
    ELSE Null

ResetPasswordFind(r) ==
    /\ At(r, "resetPassword", "find")
    /\ IF ResetTokenCheck(reqs[r].a.token, now) # Null
       THEN Finish(r, ResetTokenCheck(reqs[r].a.token, now))
       ELSE \E uid \in UsersByResetHash(hashToken(reqs[r].a.token)) :
               /\ ~TokenExpired(users[uid].reset_token_expires, now)
               /\ Goto(r, "update", [uid |-> uid])
    /\ UNCHANGED <<users, profiles, now, minted, consumed, retired, mode>>

\* mutant: the reset token fields are not cleared
PasswordReset_KeepsToken(u, newPassword) ==
    [u EXCEPT !.password_hash = bcryptHash(newPassword),
              !.plain = newPassword]

\* mutant: a password reset sends the account back to unverified
PasswordReset_Unverifies(u, newPassword) ==
    [u EXCEPT !.password_hash = bcryptHash(newPassword),
              !.plain = newPassword,
              !.reset_token_hash = Null,
              !.reset_token_expires = Null,
              !.is_verified = FALSE]

\* mutant: the beforeUpdate hook does not hash the new password
PasswordReset_Unhashed(u, newPassword) ==
    [u EXCEPT !.password_hash = newPassword,
              !.plain = newPassword,
              !.reset_token_hash = Null,
              !.reset_token_expires = Null]

\* the row user.update leaves in resetPassword (the beforeUpdate hook hashes
\* the new password)
PasswordReset(u, newPassword) ==
    [u EXCEPT !.password_hash = bcryptHash(newPassword),
              !.plain = newPassword,
              !.reset_token_hash = Null,
              !.reset_token_expires = Null]

ResetPasswordUpdate(r) ==
    /\ At(r, "resetPassword", "update")
    /\ reqs[r].l.uid \notin LockedUsers(r)
    /\ \E fails \in {FALSE, mode.faults} :
         IF fails
         THEN Finish(r, RawError) /\ UNCHANGED <<users, consumed>>
         ELSE /\ users' = [users EXCEPT ![reqs[r].l.uid] =
                               PasswordReset(@, reqs[r].a.newPassword)]
              /\ consumed' = consumed \cup {reqs[r].a.token}
              /\ Finish(r, Success("Password reset successful", Null))
    /\ UNCHANGED <<profiles, now, minted, retired, mode>>

\* ------------------------------------------------------ loginWithGoogle
\* what the Google UserInfo endpoint answers: a rejection, or a profile
GoogleAnswers ==
    {[valid |-> FALSE, email |-> Null, email_verified |-> FALSE]} \cup
    {[valid |-> TRUE, email |-> e, email_verified |-> v] :
        e \in {EmailA2, EmailB, Null}, v \in mode.attested}

GoogleStart(r) ==
    /\ reqs[r] = Idle /\ r <= mode.conc
    /\ \E answer \in GoogleAnswers :
         reqs' = [reqs EXCEPT ![r] = Call("google", "fetch", [answer |-> answer])]
    /\ UNCHANGED <<users, profiles, now, minted, consumed, retired, mode>>

\* mutant: a rejected access token is not an error
GoogleVerdict_FallsThrough(answer) ==
    IF answer.email = Null
    THEN AuthError("Email not provided by Google", 400, "GOOGLE_EMAIL_MISSING")
    ELSE Null

\* what loginWithGoogle throws on the answer of the UserInfo endpoint, if anything
GoogleVerdict(answer) ==
    IF ~answer.valid
    THEN AuthError("Invalid Google access token", 401, "INVALID_GOOGLE_TOKEN")
    ELSE IF answer.email = Null
    THEN AuthError("Email not provided by Google", 400, "GOOGLE_EMAIL_MISSING")
    ELSE Null

\* axios.get of the UserInfo endpoint, then User.findOne by the e-mail
GoogleFetch(r) ==
    /\ At(r, "google", "fetch")
    /\ IF GoogleVerdict(reqs[r].a.answer) # Null
       THEN Finish(r, GoogleVerdict(reqs[r].a.answer))
       ELSE Goto(r, "findUser", Null)
    /\ UNCHANGED <<users, profiles, now, minted, consumed, retired, mode>>

GoogleFindUser(r) ==
    /\ At(r, "google", "findUser")
    /\ LET found == UsersByEmail(toLowerCase(reqs[r].a.answer.email))
       IN  IF found = {}
           THEN Goto(r, "createUser", Null)
           ELSE \E uid \in found : Respond(r, uid, users[uid])
    /\ UNCHANGED <<users, profiles, now, minted, consumed, retired, mode>>

GoogleRegistrationFailed == AuthError("Failed to create user account", 500, "REGISTRATION_FAILED")

GoogleCreateUser(r) ==
    /\ At(r, "google", "createUser")
    /\ toLowerCase(reqs[r].a.answer.email) \notin PendingEmails(r)
    /\ FreeUserIds # {}
    /\ \E fails \in {FALSE, mode.faults} :
         IF fails \/ ~EmailIndexAdmits(toLowerCase(reqs[r].a.answer.email))
         THEN Finish(r, GoogleRegistrationFailed)
         ELSE Goto(r, "createProfile",
                   [uid |-> LeastOf(FreeUserIds),
                    user |-> NewUser(toLowerCase(reqs[r].a.answer.email),
                                     GOOGLE_OAUTH_USER, "TENANT", TRUE, "google")])
    /\ UNCHANGED <<users, profiles, now, minted, consumed, retired, mode>>

GoogleCreateProfile(r) ==
    /\ At(r, "google", "createProfile")
    /\ \E fails \in {FALSE, mode.faults} :
         IF fails
         THEN /\ Finish(r, GoogleRegistrationFailed)
              /\ users' = RolledBack(reqs[r].l.uid, reqs[r].l.user)
         ELSE /\ Goto(r, "commit",
                      [uid |-> reqs[r].l.uid, user |-> reqs[r].l.user,
                       profile |-> NewProfile(reqs[r].l.uid, <<>>)])
              /\ users' = users
    /\ UNCHANGED <<profiles, now, minted, consumed, retired, mode>>

GoogleCommit(r) ==
    /\ At(r, "google", "commit")
    /\ FreeProfileIds # {}
    /\ CommitInsert(reqs[r].l)
    /\ Goto(r, "reload", [uid |-> reqs[r].l.uid])
    /\ UNCHANGED <<now, minted, consumed, retired, mode>>

\* user.reload({ include: profile }), then the response
GoogleReload(r) ==
    /\ At(r, "google", "reload")
    /\ Respond(r, reqs[r].l.uid, users[reqs[r].l.uid])
    /\ UNCHANGED <<users, profiles, now, minted, consumed, retired, mode>>

\* ------------------------------------------------- sendVerificationEmail
SendVerificationEmailStart(r) ==
    /\ reqs[r] = Idle /\ r <= mode.conc
    /\ Len(minted) < MaxTokens
    /\ \E userId \in UserIds :
         reqs' = [reqs EXCEPT ![r] =
            Call("sendVerificationEmail", "find", [userId |-> userId])]
    /\ UNCHANGED <<users, profiles, now, minted, consumed, retired, mode>>

\* mutant: no early return for an e-mail that is already verified
SendVerificationGuard_NoShortCircuit(uid) ==
    IF uid \notin DOMAIN users
    THEN AuthError("User not found", 404, "USER_NOT_FOUND")
    ELSE Null

\* how sendVerificationEmail ends before minting a token, if it does
SendVerificationGuard(uid) ==
    IF uid \notin DOMAIN users
    THEN AuthError("User not found", 404, "USER_NOT_FOUND")
    ELSE IF users[uid].email_verified
    THEN Success("Email is already verified.", [emailVerified |-> TRUE])
    ELSE Null

SendVerificationEmailFind(r) ==
    /\ At(r, "sendVerificationEmail", "find")
    /\ IF SendVerificationGuard(reqs[r].a.userId) # Null
       THEN Finish(r, SendVerificationGuard(reqs[r].a.userId))
       ELSE Goto(r, "update", [uid |-> reqs[r].a.userId])
    /\ UNCHANGED <<users, profiles, now, minted, consumed, retired, mode>>

\* mutant: the verification token expires the moment it is minted
VerificationExpiry_Now(at) == at

\* tokenExpires of sendVerificationEmail
VerificationExpiry(at) == at + VerifyTokenTtl

SendVerificationEmailUpdate(r) ==
    /\ At(r, "sendVerificationEmail", "update")
    /\ Len(minted) < MaxTokens
    /\ reqs[r].l.uid \notin LockedUsers(r)
    /\ minted' = Append(minted, now)
    /\ \E fails \in {FALSE, mode.faults} :
         IF fails
         THEN Finish(r, RawError) /\ UNCHANGED <<users, retired>>
         ELSE /\ users' = [users EXCEPT ![reqs[r].l.uid] =
                    [@ EXCEPT !.email_verification_token_hash = hashToken(FreshToken),
                              !.email_verification_token_expires = <<VerificationExpiry(now)>>]]
              /\ retired' = retired \cup
                    Overwritten("verify", users[reqs[r].l.uid].email_verification_token_hash)
              /\ Goto(r, "send", [uid |-> reqs[r].l.uid, token |-> FreshToken])
    /\ UNCHANGED <<profiles, now, consumed, mode>>

SendVerificationEmailSend(r) ==
    /\ At(r, "sendVerificationEmail", "send")
    /\ FinishNotified(r, Success("Verification email sent. Please check your inbox.",
                                 [emailVerified |-> FALSE]))
    /\ UNCHANGED <<users, profiles, now, minted, consumed, retired, mode>>

\* ----------------------------------------------------------- verifyEmail
VerifyEmailStart(r) ==
    /\ reqs[r] = Idle /\ r <= mode.conc
    /\ \E token \in Tokens :
         reqs' = [reqs EXCEPT ![r] = Call("verifyEmail", "find", [token |-> token])]
    /\ UNCHANGED <<users, profiles, now, minted, consumed, retired, mode>>

VerificationTokenCheck(token, at) ==
    IF UsersByVerificationHash(hashToken(token)) = {}
    THEN AuthError("Invalid or expired verification token", 400, "INVALID_VERIFICATION_TOKEN")
    ELSE IF \A uid \in UsersByVerificationHash(hashToken(token)) :
               TokenExpired(users[uid].email_verification_token_expires, at)
    THEN AuthError("Verification token has expired. Please request a new one.", 400,
                   "VERIFICATION_TOKEN_EXPIRED")
    ELSE Null

VerifyEmailFind(r) ==
    /\ At(r, "verifyEmail", "find")
    /\ IF VerificationTokenCheck(reqs[r].a.token, now) # Null
       THEN Finish(r, VerificationTokenCheck(reqs[r].a.token, now))
       ELSE \E uid \in UsersByVerificationHash(hashToken(reqs[r].a.token)) :
               /\ ~TokenExpired(users[uid].email_verification_token_expires, now)
               /\ Goto(r, "update", [uid |-> uid])
    /\ UNCHANGED <<users, profiles, now, minted, consumed, retired, mode>>

\* mutant: the verification token fields are not cleared
EmailVerified_KeepsToken(u) == [u EXCEPT !.email_verified = TRUE]

\* the row user.update leaves in verifyEmail
EmailVerified(u) ==
    [u EXCEPT !.email_verified = TRUE,
              !.email_verification_token_hash = Null,
              !.email_verification_token_expires = Null]

VerifyEmailUpdate(r) ==
    /\ At(r, "verifyEmail", "update")
    /\ reqs[r].l.uid \notin LockedUsers(r)
    /\ \E fails \in {FALSE, mode.faults} :
         IF fails
         THEN Finish(r, RawError) /\ UNCHANGED <<users, retired>>
         ELSE /\ users' = [users EXCEPT ![reqs[r].l.uid] = EmailVerified(@)]
              /\ retired' = retired \cup {<<"verify", reqs[r].a.token, "used">>}
              /\ Finish(r, Success("Email verified successfully!", [emailVerified |-> TRUE]))
    /\ UNCHANGED <<profiles, now, minted, consumed, mode>>

\* --------------------------------------------------------- updateProfile
\* input.phone is a string, or undefined (Null) when the field is not sent
\* an optional field of the request body: left out, or sent with a value
NotSent == [sent |-> FALSE, value |-> Null]
Sent(value) == [sent |-> TRUE, value |-> value]

\* preferredBudgetMin / preferredBudgetMax as a caller may send them: left
\* out, null, or a positive number
BudgetInputs == {NotSent} \cup {Sent(v) : v \in mode.budgets}

\* the refinement of UpdateProfileSchema: when the body carries both budgets,
\* the minimum is at most the maximum
UpdateProfileSchema(budgetMin, budgetMax) ==
    (budgetMin.value # Null /\ budgetMax.value # Null)
        => budgetMin.value[1] <= budgetMax.value[1]

UpdateProfileStart(r) ==
    /\ reqs[r] = Idle /\ r <= mode.conc
    /\ \E userId \in UserIds, phone \in {<<ph>> : ph \in Phones} \cup {Null},
          budgetMin \in BudgetInputs, budgetMax \in BudgetInputs :
         /\ UpdateProfileSchema(budgetMin, budgetMax)
         /\ reqs' = [reqs EXCEPT ![r] =
              Call("updateProfile", "find",
                   [userId |-> userId, phone |-> phone,
                    budgetMin |-> budgetMin, budgetMax |-> budgetMax])]
    /\ UNCHANGED <<users, profiles, now, minted, consumed, retired, mode>>

\* User.findByPk with its profile, in the transaction
UpdateProfileFind(r) ==
    /\ At(r, "updateProfile", "find")
    /\ LET uid == reqs[r].a.userId
       IN  IF uid \notin DOMAIN users
           THEN Finish(r, AuthError("User not found", 404, "USER_NOT_FOUND"))
           ELSE IF ProfilesOf(uid) = {}
           THEN Finish(r, AuthError("Profile not found", 404, "PROFILE_NOT_FOUND"))
           ELSE \E p \in ProfilesOf(uid) : Goto(r, "update", [uid |-> uid, pid |-> p])
    /\ UNCHANGED <<users, profiles, now, minted, consumed, retired, mode>>

\* profile.update(updateData) in the transaction
UpdateProfileUpdate(r) ==
    /\ At(r, "updateProfile", "update")
    /\ reqs[r].l.pid \notin LockedProfiles(r)
    /\ \E fails \in {FALSE, mode.faults} :
         IF fails
         THEN Finish(r, AuthError("Failed to update profile. Please try again.", 500,
                                  "PROFILE_UPDATE_FAILED"))
         ELSE Goto(r, "commit", reqs[r].l)
    /\ UNCHANGED <<users, profiles, now, minted, consumed, retired, mode>>

\* updateData: only the fields that were sent are written
UpdatedProfile(p, a) ==
    [p EXCEPT !.phone_number = IF a.phone = Null THEN @ ELSE a.phone[1],
              !.preferred_budget_min = IF a.budgetMin.sent THEN a.budgetMin.value ELSE @,
              !.preferred_budget_max = IF a.budgetMax.sent THEN a.budgetMax.value ELSE @]

\* transaction.commit(), then the response
UpdateProfileCommit(r) ==
    /\ At(r, "updateProfile", "commit")
    /\ profiles' = [profiles EXCEPT ![reqs[r].l.pid] = UpdatedProfile(@, reqs[r].a)]
    /\ Finish(r, Success("profile",
                 [userId |-> reqs[r].l.uid,
                  phoneNumber |-> UpdatedProfile(profiles[reqs[r].l.pid], reqs[r].a).phone_number]))
    /\ UNCHANGED <<users, now, minted, consumed, retired, mode>>

\* ------------------------------------------------------------ environment
\* the caller takes the response; the slot is free for the next call
\* -------------------------------------------------------- changePassword
\* PUT /auth/change-password: the controller passes the authenticated userId
\* and the validated body to the service
ChangePasswordStart(r) ==
    /\ reqs[r] = Idle /\ r <= mode.conc
    /\ \E userId \in UserIds, currentPassword \in LoginPasswords, newPassword \in Passwords :
         reqs' = [reqs EXCEPT ![r] =
            Call("changePassword", "find",
                 [userId |-> userId, currentPassword |-> currentPassword,
                  newPassword |-> newPassword])]
    /\ UNCHANGED <<users, profiles, now, minted, consumed, retired, mode>>

\* the checks of changePassword on the loaded user, in their order
ChangePasswordGuard(uid, currentPassword, newPassword) ==
    IF uid \notin DOMAIN users
    THEN AuthError("User not found", 404, "USER_NOT_FOUND")
    ELSE IF ~comparePassword(users[uid], currentPassword)
    THEN AuthError("Current password is incorrect", 401, "INVALID_CURRENT_PASSWORD")
    ELSE IF newPassword = currentPassword
    THEN AuthError("New password must be different from current password", 400,
                   "SAME_PASSWORD")
    ELSE Null

ChangePasswordFind(r) ==
    /\ At(r, "changePassword", "find")
    /\ LET guard == ChangePasswordGuard(reqs[r].a.userId, reqs[r].a.currentPassword,
                                        reqs[r].a.newPassword)
       IN  IF guard # Null
           THEN Finish(r, guard)
           ELSE Goto(r, "update", [uid |-> reqs[r].a.userId])
    /\ UNCHANGED <<users, profiles, now, minted, consumed, retired, mode>>

\* the new password is hashed and stored
ChangePasswordUpdate(r) ==
    /\ At(r, "changePassword", "update")
    /\ users' = [users EXCEPT ![reqs[r].l.uid] =
                    [@ EXCEPT !.password_hash = bcryptHash(reqs[r].a.newPassword),
                              !.plain = reqs[r].a.newPassword]]
    /\ Finish(r, Success("Password changed successfully.", Null))
    /\ UNCHANGED <<profiles, now, minted, consumed, retired, mode>>

\* ------------------------------------------------------ encrypt / decrypt
\* the strings handed to encrypt: empty, digits, one holding the delimiter,
\* one outside ASCII, and one holding an unpaired surrogate code unit
Plaintexts ==
    {<<>>, <<"2", "9", "8">>, <<"2", ":", "9">>, <<"U+00E9", "a">>, <<"U+D800", "a">>}

\* what may come back from storage in place of an envelope: the envelope, the
\* envelope with one hex digit changed, with a delimiter removed or added,
\* cut short after the tag, or with a character that is not hex appended
Tamperings(envelope) ==
    {[kind |-> "none", text |-> envelope]}
    \cup {[kind |-> "flipped",
           text |-> [envelope EXCEPT ![i] = HexDigits[1 + ((HexValue(@) + 1) % 16)]]] :
             i \in {j \in DOMAIN envelope : envelope[j] # ":"}}
    \cup {[kind |-> "joined",
           text |-> SubSeq(envelope, 1, 2 * IV_LENGTH)
                    \o SubSeq(envelope, 2 * IV_LENGTH + 2, Len(envelope))],
          [kind |-> "split", text |-> <<envelope[1], ":">> \o Tail(envelope)],
          [kind |-> "cut", text |-> SubSeq(envelope, 1, 2 * IV_LENGTH + 2 * AUTH_TAG_LENGTH + 1)],
          [kind |-> "padded", text |-> envelope \o <<"z">>]}

EncryptCall(r) ==
    /\ reqs[r] = Idle /\ r <= mode.conc
    /\ \E plaintext \in Plaintexts, iv \in randomBytes :
         reqs' = [reqs EXCEPT ![r] =
            [Call("encrypt", "done", [plaintext |-> plaintext, iv |-> iv])
                EXCEPT !.res = Returned(encrypt(plaintext, iv))]]
    /\ UNCHANGED <<users, profiles, now, minted, consumed, retired, mode>>

\* the envelope, or an alteration of it, is read back: decrypt, and
\* getDecryptedNationalId on a profile holding it (envelope, kind and
\* plaintext: history)
DecryptCall(r) ==
    /\ reqs[r] # Idle /\ reqs[r].op = "encrypt" /\ reqs[r].pc = "done"
    /\ \E t \in Tamperings(reqs[r].res.value) :
         reqs' = [reqs EXCEPT ![r] =
            [Call("decrypt", "done",
                  [encryptedText |-> t.text, kind |-> t.kind,
                   envelope |-> reqs[r].res.value,
                   plaintext |-> reqs[r].a.plaintext])
                EXCEPT !.res = decrypt(t.text),
                       !.l = getDecryptedNationalId(<<t.text>>)]]
    /\ UNCHANGED <<users, profiles, now, minted, consumed, retired, mode>>

Return(r) ==
    /\ reqs[r].pc = "done"
    /\ reqs' = [reqs EXCEPT ![r] = Idle]
    /\ UNCHANGED <<users, profiles, now, minted, consumed, retired, mode>>

\* the instants the clock is read at: the two token lifetimes and an hour
\* past the longer one
Instants == {ResetTokenTtl, VerifyTokenTtl, VerifyTokenTtl + HourMs}

\* time passes
Tick ==
    /\ \E t \in Instants :
         /\ now < t
         /\ t <= mode.horizon
         /\ now' = t
    /\ UNCHANGED <<users, profiles, reqs, minted, consumed, retired, mode>>

Sequential == [conc |-> 1, faults |-> FALSE, horizon |-> MaxHours * HourMs, nonces |-> 1, budgets |-> {}, attested |-> {TRUE}]

InitStore ==
    /\ users = <<>>
    /\ profiles = <<>>
    /\ reqs = [r \in Reqs |-> Idle]
    /\ now = 0
    /\ minted = <<>>
    /\ consumed = {}
    /\ retired = {}

Init == InitStore /\ mode = Sequential

Next ==
    \/ \E r \in Reqs : RegisterStart(r)
    \/ \E r \in Reqs : RegisterFindEmail(r)
    \/ \E r \in Reqs : RegisterFindPhone(r)
    \/ \E r \in Reqs : RegisterCreateUser(r)
    \/ \E r \in Reqs : RegisterCreateProfile(r)
    \/ \E r \in Reqs : RegisterCommit(r)
    \/ \E r \in Reqs : LoginStart(r)
    \/ \E r \in Reqs : LoginFindProfile(r)
    \/ \E r \in Reqs : LoginFindUser(r)
    \/ \E r \in Reqs : CompleteVerificationStart(r)
    \/ \E r \in Reqs : CompleteVerificationFind(r)
    \/ \E r \in Reqs : CompleteVerificationUpdateProfile(r)
    \/ \E r \in Reqs : CompleteVerificationUpdateUser(r)
    \/ \E r \in Reqs : CompleteVerificationCommit(r)
    \/ \E r \in Reqs : CompleteVerificationWelcome(r)
    \/ \E r \in Reqs : ForgotPasswordStart(r)
    \/ \E r \in Reqs : ForgotPasswordFind(r)
    \/ \E r \in Reqs : ForgotPasswordUpdate(r)
    \/ \E r \in Reqs : ForgotPasswordSend(r)
    \/ \E r \in Reqs : ResetPasswordStart(r)
    \/ \E r \in Reqs : ResetPasswordFind(r)
    \/ \E r \in Reqs : ResetPasswordUpdate(r)
    \/ \E r \in Reqs : GoogleStart(r)
    \/ \E r \in Reqs : GoogleFetch(r)
    \/ \E r \in Reqs : GoogleFindUser(r)
    \/ \E r \in Reqs : GoogleCreateUser(r)
    \/ \E r \in Reqs : GoogleCreateProfile(r)
    \/ \E r \in Reqs : GoogleCommit(r)
    \/ \E r \in Reqs : GoogleReload(r)
    \/ \E r \in Reqs : SendVerificationEmailStart(r)
    \/ \E r \in Reqs : SendVerificationEmailFind(r)
    \/ \E r \in Reqs : SendVerificationEmailUpdate(r)
    \/ \E r \in Reqs : SendVerificationEmailSend(r)
    \/ \E r \in Reqs : VerifyEmailStart(r)
    \/ \E r \in Reqs : VerifyEmailFind(r)
    \/ \E r \in Reqs : VerifyEmailUpdate(r)
    \/ \E r \in Reqs : Return(r)
    \/ Tick

Spec == Init /\ [][Next]_vars

\* Account creation alone, two calls at a time: register and loginWithGoogle
\* interleaved at every await
NextProvision ==
    \/ \E r \in Reqs : RegisterStart(r)
    \/ \E r \in Reqs : RegisterFindEmail(r)
    \/ \E r \in Reqs : RegisterFindPhone(r)
    \/ \E r \in Reqs : RegisterCreateUser(r)
    \/ \E r \in Reqs : RegisterCreateProfile(r)
    \/ \E r \in Reqs : RegisterCommit(r)
    \/ \E r \in Reqs : GoogleStart(r)
    \/ \E r \in Reqs : GoogleFetch(r)
    \/ \E r \in Reqs : GoogleFindUser(r)
    \/ \E r \in Reqs : GoogleCreateUser(r)
    \/ \E r \in Reqs : GoogleCreateProfile(r)
    \/ \E r \in Reqs : GoogleCommit(r)
    \/ \E r \in Reqs : GoogleReload(r)
    \/ \E r \in Reqs : Return(r)

Concurrent == [conc |-> MaxReqs, faults |-> FALSE, horizon |-> 0, nonces |-> 1, budgets |-> {}, attested |-> {TRUE}]
ConcurrentFaulty == [conc |-> MaxReqs, faults |-> TRUE, horizon |-> 0, nonces |-> 1, budgets |-> {}, attested |-> {TRUE}]

InitRace == InitStore /\ mode = Concurrent
InitFaults == InitStore /\ mode = ConcurrentFaulty

SpecRace == InitRace /\ [][NextProvision]_vars
SpecFaults == InitFaults /\ [][NextProvision]_vars

\* Registration and profile updates, two calls at a time
NextProfile ==
    \/ \E r \in Reqs : RegisterStart(r)
    \/ \E r \in Reqs : RegisterFindEmail(r)
    \/ \E r \in Reqs : RegisterFindPhone(r)
    \/ \E r \in Reqs : RegisterCreateUser(r)
    \/ \E r \in Reqs : RegisterCreateProfile(r)
    \/ \E r \in Reqs : RegisterCommit(r)
    \/ \E r \in Reqs : UpdateProfileStart(r)
    \/ \E r \in Reqs : UpdateProfileFind(r)
    \/ \E r \in Reqs : UpdateProfileUpdate(r)
    \/ \E r \in Reqs : UpdateProfileCommit(r)
    \/ \E r \in Reqs : Return(r)

InitProfile == InitStore /\ mode = Concurrent

SpecProfile == InitProfile /\ [][NextProfile]_vars

\* Onboarding, one call at a time while the clock runs: register, then the
\* e-mail verification round trip, then completeVerification
NextOnboarding ==
    \/ \E r \in Reqs : RegisterStart(r)
    \/ \E r \in Reqs : RegisterFindEmail(r)
    \/ \E r \in Reqs : RegisterFindPhone(r)
    \/ \E r \in Reqs : RegisterCreateUser(r)
    \/ \E r \in Reqs : RegisterCreateProfile(r)
    \/ \E r \in Reqs : RegisterCommit(r)
    \/ \E r \in Reqs : SendVerificationEmailStart(r)
    \/ \E r \in Reqs : SendVerificationEmailFind(r)
    \/ \E r \in Reqs : SendVerificationEmailUpdate(r)
    \/ \E r \in Reqs : SendVerificationEmailSend(r)
    \/ \E r \in Reqs : VerifyEmailStart(r)
    \/ \E r \in Reqs : VerifyEmailFind(r)
    \/ \E r \in Reqs : VerifyEmailUpdate(r)
    \/ \E r \in Reqs : CompleteVerificationStart(r)
    \/ \E r \in Reqs : CompleteVerificationFind(r)
    \/ \E r \in Reqs : CompleteVerificationUpdateProfile(r)
    \/ \E r \in Reqs : CompleteVerificationUpdateUser(r)
    \/ \E r \in Reqs : CompleteVerificationCommit(r)
    \/ \E r \in Reqs : CompleteVerificationWelcome(r)
    \/ \E r \in Reqs : Return(r)
    \/ Tick

SpecOnboarding == Init /\ [][NextOnboarding]_vars

\* The two ways an e-mail address becomes verified, two calls at a time, over
\* a store of one registered account: the verification round trip, and
\* loginWithGoogle with a provider that reports email_verified either way
InitEmailTrust ==
    /\ users = <<NewUser(EmailA1, Password1, "LANDLORD", FALSE, "register")>>
    /\ profiles = <<NewProfile(1, PhoneLocal)>>
    /\ reqs = [r \in Reqs |-> Idle]
    /\ now = 0
    /\ minted = <<>>
    /\ consumed = {}
    /\ retired = {}
    /\ mode = [Concurrent EXCEPT !.attested = BOOLEAN]

NextEmailTrust ==
    \/ \E r \in Reqs : GoogleStart(r)
    \/ \E r \in Reqs : GoogleFetch(r)
    \/ \E r \in Reqs : GoogleFindUser(r)
    \/ \E r \in Reqs : GoogleCreateUser(r)
    \/ \E r \in Reqs : GoogleCreateProfile(r)
    \/ \E r \in Reqs : GoogleCommit(r)
    \/ \E r \in Reqs : GoogleReload(r)
    \/ \E r \in Reqs : SendVerificationEmailStart(r)
    \/ \E r \in Reqs : SendVerificationEmailFind(r)
    \/ \E r \in Reqs : SendVerificationEmailUpdate(r)
    \/ \E r \in Reqs : SendVerificationEmailSend(r)
    \/ \E r \in Reqs : VerifyEmailStart(r)
    \/ \E r \in Reqs : VerifyEmailFind(r)
    \/ \E r \in Reqs : VerifyEmailUpdate(r)
    \/ \E r \in Reqs : Return(r)

SpecEmailTrust == InitEmailTrust /\ [][NextEmailTrust]_vars

\* Profile updates that carry budgets, one call at a time, over a store of
\* one registered account
InitBudget ==
    /\ users = <<NewUser(EmailA1, Password1, "LANDLORD", FALSE, "register")>>
    /\ profiles = <<NewProfile(1, PhoneLocal)>>
    /\ reqs = [r \in Reqs |-> Idle]
    /\ now = 0
    /\ minted = <<>>
    /\ consumed = {}
    /\ retired = {}
    /\ mode = [Sequential EXCEPT !.budgets = {Null, <<3>>, <<5>>}]

NextBudget ==
    \/ \E r \in Reqs : UpdateProfileStart(r)
    \/ \E r \in Reqs : UpdateProfileFind(r)
    \/ \E r \in Reqs : UpdateProfileUpdate(r)
    \/ \E r \in Reqs : UpdateProfileCommit(r)
    \/ \E r \in Reqs : Return(r)

SpecBudget == InitBudget /\ [][NextBudget]_vars

\* Registration, login and password changes, one call at a time
NextPassword ==
    \/ \E r \in Reqs : RegisterStart(r)
    \/ \E r \in Reqs : RegisterFindEmail(r)
    \/ \E r \in Reqs : RegisterFindPhone(r)
    \/ \E r \in Reqs : RegisterCreateUser(r)
    \/ \E r \in Reqs : RegisterCreateProfile(r)
    \/ \E r \in Reqs : RegisterCommit(r)
    \/ \E r \in Reqs : ChangePasswordStart(r)
    \/ \E r \in Reqs : ChangePasswordFind(r)
    \/ \E r \in Reqs : ChangePasswordUpdate(r)
    \/ \E r \in Reqs : Return(r)

InitPassword == InitStore /\ mode = Sequential

SpecPassword == InitPassword /\ [][NextPassword]_vars

\* The account lifecycle, one call at a time, over a store whose writes may fail
NextLifecycle ==
    \/ \E r \in Reqs : RegisterStart(r)
    \/ \E r \in Reqs : RegisterFindEmail(r)
    \/ \E r \in Reqs : RegisterFindPhone(r)
    \/ \E r \in Reqs : RegisterCreateUser(r)
    \/ \E r \in Reqs : RegisterCreateProfile(r)
    \/ \E r \in Reqs : RegisterCommit(r)
    \/ \E r \in Reqs : SendVerificationEmailStart(r)
    \/ \E r \in Reqs : SendVerificationEmailFind(r)
    \/ \E r \in Reqs : SendVerificationEmailUpdate(r)
    \/ \E r \in Reqs : SendVerificationEmailSend(r)
    \/ \E r \in Reqs : VerifyEmailStart(r)
    \/ \E r \in Reqs : VerifyEmailFind(r)
    \/ \E r \in Reqs : VerifyEmailUpdate(r)
    \/ \E r \in Reqs : CompleteVerificationStart(r)
    \/ \E r \in Reqs : CompleteVerificationFind(r)
    \/ \E r \in Reqs : CompleteVerificationUpdateProfile(r)
    \/ \E r \in Reqs : CompleteVerificationUpdateUser(r)
    \/ \E r \in Reqs : CompleteVerificationCommit(r)
    \/ \E r \in Reqs : CompleteVerificationWelcome(r)
    \/ \E r \in Reqs : ForgotPasswordStart(r)
    \/ \E r \in Reqs : ForgotPasswordFind(r)
    \/ \E r \in Reqs : ForgotPasswordUpdate(r)
    \/ \E r \in Reqs : ForgotPasswordSend(r)
    \/ \E r \in Reqs : ResetPasswordStart(r)
    \/ \E r \in Reqs : ResetPasswordFind(r)
    \/ \E r \in Reqs : ResetPasswordUpdate(r)
    \/ \E r \in Reqs : Return(r)

InitLifecycle == InitStore /\ mode = [conc |-> 1, faults |-> TRUE, horizon |-> 0, nonces |-> 1, budgets |-> {}, attested |-> {TRUE}]

SpecLifecycle == InitLifecycle /\ [][NextLifecycle]_vars

\* encrypt, then decrypt of what storage gives back
NextCipher ==
    \/ \E r \in Reqs : EncryptCall(r)
    \/ \E r \in Reqs : DecryptCall(r)
    \/ \E r \in Reqs : Return(r)

InitCipher == InitStore /\ mode = [conc |-> 1, faults |-> FALSE, horizon |-> 0, nonces |-> 2, budgets |-> {}, attested |-> {TRUE}]

SpecCipher == InitCipher /\ [][NextCipher]_vars

\* Registration and password resets, two calls at a time
NextReset ==
    \/ \E r \in Reqs : RegisterStart(r)
    \/ \E r \in Reqs : RegisterFindEmail(r)
    \/ \E r \in Reqs : RegisterFindPhone(r)
    \/ \E r \in Reqs : RegisterCreateUser(r)
    \/ \E r \in Reqs : RegisterCreateProfile(r)
    \/ \E r \in Reqs : RegisterCommit(r)
    \/ \E r \in Reqs : ForgotPasswordStart(r)
    \/ \E r \in Reqs : ForgotPasswordFind(r)
    \/ \E r \in Reqs : ForgotPasswordUpdate(r)
    \/ \E r \in Reqs : ForgotPasswordSend(r)
    \/ \E r \in Reqs : ResetPasswordStart(r)
    \/ \E r \in Reqs : ResetPasswordFind(r)
    \/ \E r \in Reqs : ResetPasswordUpdate(r)
    \/ \E r \in Reqs : Return(r)

InitReset == InitStore /\ mode = Concurrent

SpecReset == InitReset /\ [][NextReset]_vars

\* resetPassword, then login, one call at a time, over a store of two
\* registered accounts, the first of which has asked for a password reset and
\* holds the one reset token minted so far
PreviousPassword == Password1

InitRelogin ==
    /\ users = <<[NewUser(EmailA1, PreviousPassword, "LANDLORD", FALSE, "register")
                    EXCEPT !.reset_token_hash = hashToken(1),
                           !.reset_token_expires = <<ResetExpiry(0)>>],
                 NewUser(EmailB, PreviousPassword, "LANDLORD", FALSE, "register")>>
    /\ profiles = <<NewProfile(1, PhoneLocal), NewProfile(2, PhoneOther)>>
    /\ reqs = [r \in Reqs |-> Idle]
    /\ now = 0
    /\ minted = <<0>>
    /\ consumed = {}
    /\ retired = {}
    /\ mode = Sequential

NextRelogin ==
    \/ \E r \in Reqs : ResetPasswordStart(r)
    \/ \E r \in Reqs : ResetPasswordFind(r)
    \/ \E r \in Reqs : ResetPasswordUpdate(r)
    \/ \E r \in Reqs : LoginStart(r)
    \/ \E r \in Reqs : LoginFindProfile(r)
    \/ \E r \in Reqs : LoginFindUser(r)
    \/ \E r \in Reqs : Return(r)
    \/ Tick

SpecRelogin == InitRelogin /\ [][NextRelogin]_vars

\* completeVerification, two calls at a time, over a store of two registered
\* accounts, the first of which has verified its e-mail address with the
\* one verification token minted so far
InitVerification ==
    /\ users = <<NewUser(EmailA1, Password1, "LANDLORD", TRUE, "register"),
                 NewUser(EmailB, Password1, "LANDLORD", FALSE, "register")>>
    /\ profiles = <<NewProfile(1, PhoneLocal), NewProfile(2, PhoneOther)>>
    /\ reqs = [r \in Reqs |-> Idle]
    /\ now = 0
    /\ minted = <<0>>
    /\ consumed = {}
    /\ retired = {<<"verify", 1, "used">>}
    /\ mode = [Concurrent EXCEPT !.nonces = 2]

NextVerification ==
    \/ \E r \in Reqs : CompleteVerificationStart(r)
    \/ \E r \in Reqs : CompleteVerificationFind(r)
    \/ \E r \in Reqs : CompleteVerificationUpdateProfile(r)
    \/ \E r \in Reqs : CompleteVerificationUpdateUser(r)
    \/ \E r \in Reqs : CompleteVerificationCommit(r)
    \/ \E r \in Reqs : CompleteVerificationWelcome(r)
    \/ \E r \in Reqs : Return(r)

SpecVerification == InitVerification /\ [][NextVerification]_vars

\* Login by phone over a store of two registered accounts, whose phone
\* numbers are whatever strings register was given (RegisterSchema: 1 to 20
\* characters), and identifiers of every shape the resolver distinguishes
Local8  == <<"1", "0", "0", "0", "0", "0", "0", "1">>
Local9  == <<"1", "0", "0", "0", "0", "0", "0", "0", "1">>
Local10 == <<"1", "0", "0", "0", "0", "0", "0", "0", "0", "1">>
CountryCodes == {<<"2">>, <<"2", "0">>, <<"2", "0", "1">>, <<"2", "0", "1", "1">>}
LongCode == <<"2", "0", "1", "1", "1">>
UnrelatedDigits == <<"0", "2", "0", "0", "0", "0", "0", "0", "0", "2">>

StoredPhones ==
    {<<"0">> \o Local8, <<"0">> \o Local9, <<"0">> \o Local10,
     <<"+">> \o Local9,
     <<"+", "2", "0">> \o Local9,
     <<"+">> \o LongCode \o Local9,
     UnrelatedDigits}

PhoneIdentifiers ==
    {<<"+">> \o c \o l : c \in CountryCodes \cup {LongCode, <<>>},
                          l \in {Local8, Local9, Local10}}
    \cup {<<"0">> \o Local8, <<"0">> \o Local9, Local9,
          <<" ", "+", "2", "0">> \o Local9 \o <<" ">>,
          <<"0", "%">>,
          <<"0", "3", "0", "0", "0", "0", "0", "0", "0", "3">>}

LoginByPhoneStart(r) ==
    /\ reqs[r] = Idle /\ r <= mode.conc
    /\ \E identifier \in PhoneIdentifiers, password \in Passwords :
         reqs' = [reqs EXCEPT ![r] =
            Call("login", "findProfile",
                 [identifier |-> identifier, password |-> password])]
    /\ UNCHANGED <<users, profiles, now, minted, consumed, retired, mode>>

InitPhone ==
    /\ \E ph1, ph2 \in StoredPhones :
         /\ ph1 # ph2
         /\ profiles = <<NewProfile(1, ph1), NewProfile(2, ph2)>>
    /\ users = <<NewUser(EmailA1, Password1, "LANDLORD", FALSE, "register"),
                 NewUser(EmailB, Password1, "LANDLORD", FALSE, "register")>>
    /\ reqs = [r \in Reqs |-> Idle]
    /\ now = 0
    /\ minted = <<>>
    /\ consumed = {}
    /\ retired = {}
    /\ mode = [conc |-> 1, faults |-> FALSE, horizon |-> 0, nonces |-> 1, budgets |-> {}, attested |-> {TRUE}]

NextPhone ==
    \/ \E r \in Reqs : LoginByPhoneStart(r)
    \/ \E r \in Reqs : LoginFindProfile(r)
    \/ \E r \in Reqs : LoginFindUser(r)
    \/ \E r \in Reqs : Return(r)

SpecPhone == InitPhone /\ [][NextPhone]_vars

\* ======================================================================
\* Properties
\* ======================================================================
Done(r, op) == reqs[r].op = op /\ reqs[r].pc = "done"

\* C1: in every reachable state, under any interleaving of register and
\* loginWithGoogle calls, no two accounts have e-mails that are equal
\* ignoring letter case.
C1_EmailsUniqueIgnoringCase ==
    \A u, v \in DOMAIN users :
        u # v => ~SameIgnoringCase(users[u].email, users[v].email)

\* C1 witness: a call that found the e-mail free when it looked was refused by
\* the unique index at its insert, after a concurrent call committed the
\* same e-mail in another letter case.
C1_Witness ==
    \E r \in Reqs :
        /\ reqs[r].pc = "done" /\ reqs[r].op = "register"
        /\ reqs[r].last = "createUser" /\ ~reqs[r].res.ok
        /\ \E u \in DOMAIN users :
              /\ users[u].email # reqs[r].a.email
              /\ SameIgnoringCase(users[u].email, reqs[r].a.email)

EmailExists == AuthError("Email already registered", 409, "EMAIL_EXISTS")

\* C2: register with an e-mail that is already registered, in any letter
\* case, ends with Conflict (409, EMAIL_EXISTS) and no step of the call
\* changes the store: no new users row, no new profiles row.
C2_DuplicateEmailConflict ==
    [][\A r \in Reqs :
          (reqs[r].op = "register" /\ reqs[r].a.known /\ reqs'[r] # reqs[r])
          => /\ users' = users
             /\ profiles' = profiles
             /\ reqs'[r].pc \in {"done", "idle"}
             /\ reqs'[r].pc = "done" => reqs'[r].res = EmailExists]_vars

\* C2 witness: a register call with an e-mail stored in another letter case
\* has ended with EMAIL_EXISTS.
C2_Witness ==
    \E r \in Reqs :
        /\ Done(r, "register") /\ reqs[r].a.known
        /\ reqs[r].res = EmailExists
        /\ \A u \in DOMAIN users : users[u].email # reqs[r].a.email

\* C3: in every committed state every account has exactly one profile and
\* every profile belongs to an existing account, also when an insert fails.
C3_AccountProfileOneToOne ==
    /\ \A u \in DOMAIN users : Cardinality(ProfilesOf(u)) = 1
    /\ \A p \in DOMAIN profiles : profiles[p].user_id \in DOMAIN users

\* C3 witness: Profile.create failed after User.create had inserted the
\* account, and the store holds no account for that e-mail.
C3_Witness ==
    \E r \in Reqs :
        /\ reqs[r].pc = "done" /\ reqs[r].op \in {"register", "google"}
        /\ reqs[r].last = "createProfile" /\ ~reqs[r].res.ok
        /\ users = <<>> /\ profiles = <<>>

\* C4: login fails with the identical error (401, INVALID_CREDENTIALS, same
\* message) whether the identifier resolves to no account or to an account
\* whose password does not match, for e-mail and phone identifiers alike.
C4_LoginFailureUniform ==
    \A r \in Reqs :
        (Done(r, "login") /\ ~reqs[r].res.ok)
        => reqs[r].res = AuthError("Invalid credentials", 401, "INVALID_CREDENTIALS")

\* C4 witness: a phone identifier resolved to an account and the password
\* did not match.
C4_Witness ==
    \E r \in Reqs :
        /\ Done(r, "login") /\ ~reqs[r].res.ok
        /\ ~includes(reqs[r].a.identifier, "@")
        /\ reqs[r].last = "findUser"
        /\ \E p \in DOMAIN profiles :
              /\ PhoneMatches(profiles[p].phone_number, reqs[r].a.identifier)
              /\ profiles[p].user_id \in DOMAIN users
              /\ users[profiles[p].user_id].plain # reqs[r].a.password

C7_EmailMustBeVerifiedFirst ==
    [][\A r \in Reqs :
          (/\ At(r, "completeVerification", "find")
           /\ reqs[r].a.userId \in DOMAIN users
           /\ ~users[reqs[r].a.userId].email_verified
           /\ reqs'[r] # reqs[r])
          => /\ reqs'[r].pc = "done"
             /\ reqs'[r].res.code = "EMAIL_NOT_VERIFIED"
             /\ users' = users
             /\ profiles' = profiles
             /\ ~users'[reqs[r].a.userId].is_verified]_vars

\* C7 witness: a completeVerification call has ended with EMAIL_NOT_VERIFIED.
C7_Witness ==
    \E r \in Reqs :
        /\ Done(r, "completeVerification")
        /\ reqs[r].res.code = "EMAIL_NOT_VERIFIED"
        /\ ~users[reqs[r].a.userId].email_verified

\* C8: completeVerification on an account whose is_verified is already true
\* fails with ALREADY_VERIFIED and changes neither the account nor the
\* profile.
C8_AlreadyVerifiedRejected ==
    [][\A r \in Reqs :
          (/\ At(r, "completeVerification", "find")
           /\ reqs[r].a.userId \in DOMAIN users
           /\ users[reqs[r].a.userId].is_verified
           /\ reqs'[r] # reqs[r])
          => /\ reqs'[r].pc = "done"
             /\ reqs'[r].res.code = "ALREADY_VERIFIED"
             /\ ~reqs'[r].res.ok
             /\ users' = users
             /\ profiles' = profiles]_vars

\* C8 witness: a completeVerification call on a verified account has ended
\* with ALREADY_VERIFIED.
C8_Witness ==
    \E r \in Reqs :
        /\ Done(r, "completeVerification")
        /\ reqs[r].res.code = "ALREADY_VERIFIED"
        /\ users[reqs[r].a.userId].is_verified

\* C9: once resetPassword has succeeded with token T, every later
\* resetPassword call with T fails with INVALID_RESET_TOKEN and changes no
\* account.
C9_ResetTokenSingleUse ==
    [][\A r \in Reqs :
          (reqs[r].op = "resetPassword" /\ reqs[r].a.used /\ reqs'[r] # reqs[r])
          => /\ users' = users
             /\ reqs'[r].pc \in {"done", "idle"}
             /\ reqs'[r].pc = "done" => reqs'[r].res.code = "INVALID_RESET_TOKEN"]_vars

\* C9 witness: a second resetPassword call with a used token, asking for a
\* password other than the stored one, has ended with INVALID_RESET_TOKEN.
C9_Witness ==
    \E r \in Reqs :
        /\ Done(r, "resetPassword") /\ reqs[r].a.used
        /\ reqs[r].res.code = "INVALID_RESET_TOKEN"
        /\ \A u \in DOMAIN users : users[u].plain # reqs[r].a.newPassword

\* C10 (the claim as stated): a stored reset token minted at t0 is accepted
\* at time t if and only if t < t0 + 1 hour, and a stored e-mail verification
\* token if and only if t < t0 + 24 hours.
C10_AcceptedIffStrictlyBeforeExpiry ==
    [][\A r \in Reqs :
          /\ (/\ At(r, "resetPassword", "find")
              /\ UsersByResetHash(hashToken(reqs[r].a.token)) # {}
              /\ reqs'[r] # reqs[r])
             => (reqs'[r].pc = "update"
                   <=> now < minted[reqs[r].a.token] + HourMs)
          /\ (/\ At(r, "verifyEmail", "find")
              /\ UsersByVerificationHash(hashToken(reqs[r].a.token)) # {}
              /\ reqs'[r] # reqs[r])
             => (reqs'[r].pc = "update"
                   <=> now < minted[reqs[r].a.token] + 24 * HourMs)]_vars

\* a token the code would accept for this account now
AcceptableReset(t, u) ==
    /\ users[u].reset_token_hash = hashToken(t)
    /\ ~TokenExpired(users[u].reset_token_expires, now)
AcceptableVerification(t, u) ==
    /\ users[u].email_verification_token_hash = hashToken(t)
    /\ ~TokenExpired(users[u].email_verification_token_expires, now)

C11_AtMostOneAcceptable ==
    \A u \in DOMAIN users : \A t1, t2 \in Tokens :
        /\ (AcceptableReset(t1, u) /\ AcceptableReset(t2, u)) => t1 = t2
        /\ (AcceptableVerification(t1, u) /\ AcceptableVerification(t2, u)) => t1 = t2

C11_SupersededStep ==
    \A r \in Reqs :
        \* a superseded token is refused, and nothing is written
        /\ (/\ At(r, "resetPassword", "find")
            /\ <<"reset", reqs[r].a.token, "superseded">> \in retired
            /\ reqs'[r] # reqs[r])
           => /\ reqs'[r].pc = "done"
              /\ reqs'[r].res.code = "INVALID_RESET_TOKEN"
              /\ users' = users
        /\ (/\ At(r, "verifyEmail", "find")
            /\ <<"verify", reqs[r].a.token, "superseded">> \in retired
            /\ reqs'[r] # reqs[r])
           => /\ reqs'[r].pc = "done"
              /\ reqs'[r].res.code = "INVALID_VERIFICATION_TOKEN"
              /\ users' = users
        \* the step that supersedes T1 stores T2, the token just minted
        /\ (At(r, "forgotPassword", "update") /\ retired' # retired)
           => /\ users'[reqs[r].l.uid].reset_token_hash = hashToken(Len(minted'))
              /\ users'[reqs[r].l.uid].reset_token_expires = <<now + HourMs>>
              /\ \A x \in retired' \ retired : \A u \in DOMAIN users' :
                    users'[u].reset_token_hash # hashToken(x[2])
        /\ (At(r, "sendVerificationEmail", "update") /\ retired' # retired)
           => /\ users'[reqs[r].l.uid].email_verification_token_hash = hashToken(Len(minted'))
              /\ users'[reqs[r].l.uid].email_verification_token_expires = <<now + 24 * HourMs>>
              /\ \A x \in retired' \ retired : \A u \in DOMAIN users' :
                    users'[u].email_verification_token_hash # hashToken(x[2])

\* C11: when a second token of a kind is minted for an account, the first
\* one is refused as invalid from then on (resetPassword: INVALID_RESET_TOKEN,
\* verifyEmail: INVALID_VERIFICATION_TOKEN) and the second is the one stored;
\* at any time at most one token of each kind is acceptable per account.
C11_NewTokenSupersedesOld ==
    []C11_AtMostOneAcceptable /\ [][C11_SupersededStep]_vars

\* C11 witness: resetPassword with T1 has been refused as invalid while T2,
\* minted later for the same account, is the stored reset token.
C11_Witness ==
    \E r \in Reqs : \E u \in DOMAIN users : \E t2 \in Tokens :
        /\ Done(r, "resetPassword")
        /\ reqs[r].res.code = "INVALID_RESET_TOKEN"
        /\ <<"reset", reqs[r].a.token, "superseded">> \in retired
        /\ t2 # reqs[r].a.token
        /\ AcceptableReset(t2, u)

C13_FederatedAccountHasNoPassword ==
    \A r \in Reqs : \A u \in DOMAIN users :
        (/\ Done(r, "login")
         /\ includes(reqs[r].a.identifier, "@")
         /\ SameIgnoringCase(users[u].email, reqs[r].a.identifier)
         /\ users[u].origin = "google"
         /\ users[u].plain = GOOGLE_OAUTH_USER)
        => /\ ~reqs[r].res.ok
           /\ reqs[r].res.code = "INVALID_CREDENTIALS"

C15_RejectedProviderToken ==
    [][\A r \in Reqs :
          (/\ At(r, "google", "fetch")
           /\ ~reqs[r].a.answer.valid
           /\ reqs'[r] # reqs[r])
          => /\ reqs'[r].pc = "done"
             /\ reqs'[r].res =
                   [ok |-> FALSE, message |-> "Invalid Google access token",
                    status |-> 401, code |-> "INVALID_GOOGLE_TOKEN"]
             /\ users' = users
             /\ profiles' = profiles]_vars

\* C15 witness: loginWithGoogle has ended with INVALID_GOOGLE_TOKEN on a
\* store that holds an account.
C15_Witness ==
    \E r \in Reqs :
        /\ Done(r, "google")
        /\ reqs[r].res.code = "INVALID_GOOGLE_TOKEN"
        /\ reqs[r].last = "fetch"
        /\ users # <<>>

\* C19: sendVerificationEmail for an account whose email_verified is true
\* returns success with emailVerified = true at once: no token is minted, no
\* e-mail step is reached, and no row (so no stored verification hash or
\* expiry) changes.
C19_AlreadyVerifiedEmailIsNoOp ==
    [][\A r \in Reqs :
          (/\ At(r, "sendVerificationEmail", "find")
           /\ reqs[r].a.userId \in DOMAIN users
           /\ users[reqs[r].a.userId].email_verified
           /\ reqs'[r] # reqs[r])
          => /\ reqs'[r].pc = "done"
             /\ reqs'[r].res.ok
             /\ reqs'[r].res.body.emailVerified = TRUE
             /\ minted' = minted
             /\ users' = users]_vars

\* C19 witness: sendVerificationEmail has returned emailVerified = true for
\* an account that verified its e-mail through verifyEmail.
C19_Witness ==
    \E r \in Reqs :
        /\ Done(r, "sendVerificationEmail")
        /\ reqs[r].res.ok
        /\ reqs[r].last = "find"
        /\ users[reqs[r].a.userId].email_verified
        /\ users[reqs[r].a.userId].origin = "register"

\* C20: verifyEmail with a token whose hash is stored and not expired goes on
\* to one update that sets email_verified and clears the verification hash
\* and expiry together; a later verifyEmail with the same token fails with
\* INVALID_VERIFICATION_TOKEN and changes no row.
C20_VerificationTokenSingleUse ==
    [][\A r \in Reqs :
          /\ (/\ At(r, "verifyEmail", "find")
              /\ \E u \in DOMAIN users : AcceptableVerification(reqs[r].a.token, u)
              /\ reqs'[r] # reqs[r])
             => reqs'[r].pc = "update"
          /\ (At(r, "verifyEmail", "update") /\ reqs'[r] # reqs[r])
             => LET uid == reqs[r].l.uid
                IN  /\ users[uid].email_verification_token_hash = hashToken(reqs[r].a.token)
                    /\ reqs'[r].pc = "done" /\ reqs'[r].res.ok
                    /\ users'[uid].email_verified
                    /\ users'[uid].email_verification_token_hash = Null
                    /\ users'[uid].email_verification_token_expires = Null
                    /\ \A v \in DOMAIN users \ {uid} : users'[v] = users[v]
          /\ (/\ At(r, "verifyEmail", "find")
              /\ <<"verify", reqs[r].a.token, "used">> \in retired
              /\ reqs'[r] # reqs[r])
             => /\ reqs'[r].pc = "done"
                /\ reqs'[r].res.code = "INVALID_VERIFICATION_TOKEN"
                /\ users' = users]_vars

\* C20 witness: a second verifyEmail with a token that already verified an
\* e-mail has ended with INVALID_VERIFICATION_TOKEN.
C20_Witness ==
    \E r \in Reqs :
        /\ Done(r, "verifyEmail")
        /\ <<"verify", reqs[r].a.token, "used">> \in retired
        /\ reqs[r].res.code = "INVALID_VERIFICATION_TOKEN"
        /\ \E u \in DOMAIN users : users[u].email_verified /\ users[u].origin = "register"

IsDigits(s) ==
    \A i \in DOMAIN s : s[i] \in {"0", "1", "2", "3", "4", "5", "6", "7", "8", "9"}

\* intl is '+' C L and local is '0' L, for a country code C of k digits and a
\* digit string L of at least minLocal digits
IntlOfLocal(intl, local, k, minLocal) ==
    /\ Len(intl) >= 1 + k + minLocal
    /\ intl[1] = "+"
    /\ IsDigits(SubSeq(intl, 2, Len(intl)))
    /\ local = <<"0">> \o SubSeq(intl, 2 + k, Len(intl))

SamePhone(stored, identifier) ==
    \/ stored = identifier
    \/ \E k \in 1..4 : IntlOfLocal(identifier, stored, k, 0)
    \/ \E k \in 1..4 : IntlOfLocal(stored, identifier, k, 0)

\* C17 (the claim as stated): a login identifier without '@' resolves to an
\* account only if that account's stored phone equals the identifier or the
\* two are '0' L and '+' C L for one digit string L and a country code C of
\* 1 to 4 digits.
C17_ResolvesOnlySamePhone ==
    [][\A r \in Reqs :
          (/\ At(r, "login", "findProfile")
           /\ reqs'[r].pc = "findUser")
          => \E p \in DOMAIN profiles :
                /\ profiles[p].user_id = reqs'[r].l.uid
                /\ SamePhone(profiles[p].phone_number, trim(reqs[r].a.identifier))]_vars

\* C18 (the claim as stated): in every reachable state no two profiles hold
\* the same non-empty phone number, for any sequence or interleaving of
\* register and updateProfile calls.
C18_PhonesUnique ==
    \A p, q \in DOMAIN profiles :
        (p # q /\ profiles[p].phone_number # <<>>)
        => profiles[p].phone_number # profiles[q].phone_number

\* C21: when the notification sender fails to deliver, forgotPassword and
\* sendVerificationEmail still return success and the token hash and expiry
\* they stored stay stored; completeVerification still returns success,
\* is_verified stays true and the profile fields stay committed.
C21_UndeliveredStep(r) ==
    /\ reqs[r] # Idle /\ reqs'[r] # Idle
    /\ reqs[r].pc # "done" /\ reqs'[r].pc = "done" /\ reqs'[r].mail = "failed"
    => /\ reqs'[r].res.ok
       /\ users' = users /\ profiles' = profiles
       /\ reqs[r].op = "forgotPassword" =>
             /\ users'[reqs[r].l.uid].reset_token_hash = hashToken(reqs[r].l.token)
             /\ users'[reqs[r].l.uid].reset_token_expires # Null
       /\ reqs[r].op = "sendVerificationEmail" =>
             /\ users'[reqs[r].l.uid].email_verification_token_hash =
                    hashToken(reqs[r].l.token)
             /\ users'[reqs[r].l.uid].email_verification_token_expires # Null
       /\ reqs[r].op = "completeVerification" =>
             /\ users'[reqs[r].l.uid].is_verified
             /\ \E iv \in randomBytes :
                    profiles'[reqs[r].l.pid] =
                        VerifiedProfile(profiles'[reqs[r].l.pid], reqs[r].a, iv)

C21_DeliveryFailureIsNotFatal == [][\A r \in Reqs : C21_UndeliveredStep(r)]_vars

C21_Witness ==
    \E r \in Reqs, uid \in DOMAIN users :
        /\ Done(r, "forgotPassword") /\ reqs[r].mail = "failed" /\ reqs[r].res.ok
        /\ users[uid].email = toLowerCase(reqs[r].a.email)
        /\ users[uid].reset_token_hash # Null

\* C22: forgotPassword returns the same success response whether or not an
\* account exists for the submitted e-mail address.
C22_SameResponseForAnyEmail ==
    \A r \in Reqs :
        Done(r, "forgotPassword") =>
            reqs[r].res = Success("Password reset email sent. Please check your inbox.", Null)

\* C23: changePassword replaces the stored credential only when
\* currentPassword verifies against it and newPassword differs from
\* currentPassword; a wrong currentPassword fails with
\* INVALID_CURRENT_PASSWORD, an identical newPassword with SAME_PASSWORD, and
\* in both cases the stored credential is unchanged.
C23_ChangeStep(r) ==
    /\ reqs[r] # Idle /\ reqs'[r] # Idle
    /\ reqs[r].op = "changePassword" /\ reqs[r].pc # "done" /\ reqs'[r].pc = "done"
    /\ reqs[r].a.userId \in DOMAIN users
    => LET u == users[reqs[r].a.userId]
           verifies == u.plain = reqs[r].a.currentPassword
           differs == reqs[r].a.newPassword # reqs[r].a.currentPassword
       IN  /\ ~verifies => /\ reqs'[r].res.code = "INVALID_CURRENT_PASSWORD"
                           /\ users' = users
           /\ verifies /\ ~differs => /\ reqs'[r].res.code = "SAME_PASSWORD"
                                      /\ users' = users
           /\ verifies /\ differs =>
                 /\ reqs'[r].res.ok
                 /\ users'[reqs[r].a.userId].password_hash =
                        bcryptHash(reqs[r].a.newPassword)
           /\ users' # users => verifies /\ differs

C23_ChangePasswordChecksBoth ==
    [][\A r \in Reqs : C23_ChangeStep(r)]_vars

C23_Witness ==
    \E r \in Reqs :
        /\ Done(r, "changePassword") /\ reqs[r].res.ok
        /\ users[reqs[r].a.userId].plain = reqs[r].a.newPassword
        /\ reqs[r].a.newPassword # reqs[r].a.currentPassword

\* C24: for every lifecycle operation, a storage or transaction failure
\* reaches the caller as an AuthError with status 500, never as a raw
\* lower-level error, and the accounts and profiles are as they were before
\* the call.
C24_StorageFailureIsTypedAndRolledBack ==
    [][\A r \in Reqs :
          /\ reqs[r] # Idle /\ reqs'[r] # Idle
          /\ reqs[r].pc # "done" /\ reqs'[r].pc = "done"
          /\ ~reqs'[r].res.ok /\ reqs'[r].res.status = 500
          => /\ reqs'[r].res # RawError
             /\ users' = users /\ profiles' = profiles]_vars

\* a string without unpaired surrogate code units
WellFormed(s) == \A i \in DOMAIN s : s[i] # "U+D800"

\* the shape of an envelope: hex(nonce) ':' hex(authTag) ':' hex(ciphertext)
IsEnvelope(e) ==
    /\ Len(e) >= 2 * IV_LENGTH + 2 * AUTH_TAG_LENGTH + 2
    /\ \A i \in DOMAIN e :
          IF i \in {2 * IV_LENGTH + 1, 2 * IV_LENGTH + 2 * AUTH_TAG_LENGTH + 2}
          THEN e[i] = ":"
          ELSE \E k \in 1..16 : HexDigits[k] = e[i]
    /\ (Len(e) - 2 * IV_LENGTH - 2 * AUTH_TAG_LENGTH - 2) % 2 = 0

\* C25 (as stated): for every string S, decrypt(encrypt(S)) = S, where the
\* envelope is hex(nonce) ':' hex(authTag) ':' hex(ciphertext).
C25_RoundTripAnyString ==
    \A r \in Reqs :
        Done(r, "decrypt") /\ reqs[r].a.kind = "none" =>
            /\ IsEnvelope(reqs[r].a.envelope)
            /\ reqs[r].res = Returned(reqs[r].a.plaintext)

\* C25 (amended): for every string S without unpaired surrogate code units,
\* decrypt(encrypt(S)) = S, where the envelope is
\* hex(nonce) ':' hex(authTag) ':' hex(ciphertext) and the nonce is the one
\* encrypt drew.
C25_RoundTripWellFormed ==
    \A r \in Reqs :
        Done(r, "decrypt") /\ reqs[r].a.kind = "none" =>
            /\ IsEnvelope(reqs[r].a.envelope)
            /\ WellFormed(reqs[r].a.plaintext) =>
                   reqs[r].res = Returned(reqs[r].a.plaintext)

C25_Witness ==
    \E r \in Reqs :
        /\ Done(r, "decrypt") /\ reqs[r].a.kind = "none"
        /\ reqs[r].a.plaintext = <<"U+00E9", "a">>
        /\ reqs[r].res = Returned(<<"U+00E9", "a">>)

\* the number of parts split(':') gives
Parts(text) == Cardinality({i \in DOMAIN text : text[i] = ":"}) + 1

\* C26: decrypt raises an error and returns no plaintext when the envelope
\* does not have exactly three ':'-separated parts, or when a part was
\* altered (a hex digit changed in the nonce, the tag or the ciphertext, or
\* the ciphertext cut off) so that the tag does not authenticate;
\* getDecryptedNationalId then gives null.
C26_DecryptFailsClosed ==
    \A r \in Reqs :
        Done(r, "decrypt") =>
            LET a == reqs[r].a
                altered == \/ a.kind = "flipped"
                           \/ a.kind = "cut" /\ a.encryptedText # a.envelope
            IN  (Parts(a.encryptedText) # 3 \/ altered) =>
                    /\ ~reqs[r].res.ok
                    /\ reqs[r].l = Null

C26_Witness ==
    \E r \in Reqs :
        /\ Done(r, "decrypt") /\ reqs[r].a.kind = "flipped"
        /\ reqs[r].a.plaintext = <<"2", "9", "8">>
        /\ reqs[r].a.encryptedText[Len(reqs[r].a.encryptedText)] #
              reqs[r].a.envelope[Len(reqs[r].a.envelope)]
        /\ ~reqs[r].res.ok /\ reqs[r].l = Null

\* C27: a profile's stored national_id is null or an encrypted envelope of
\* the national ID passed to completeVerification, never the plaintext: it is
\* null when the profile is created, and every change of it is the commit of
\* a completeVerification call that then succeeds, storing an envelope that
\* decrypts to the national ID of that call.
C27_NationalIdStep(p) ==
    LET old == IF p \in DOMAIN profiles THEN profiles[p].national_id ELSE Null
        new == profiles'[p].national_id
    IN  new # old =>
            \E r \in Reqs :
                /\ At(r, "completeVerification", "commit")
                /\ reqs[r].l.pid = p
                /\ reqs'[r].pc = "welcome"
                /\ new # Null
                /\ new[1] # reqs[r].a.nationalId
                /\ IsEnvelope(new[1])
                /\ decrypt(new[1]) = Returned(reqs[r].a.nationalId)

C27_NationalIdEncryptedAtRest ==
    [][\A p \in DOMAIN profiles' : C27_NationalIdStep(p)]_vars

C27_Witness ==
    \E r \in Reqs, p \in DOMAIN profiles :
        /\ Done(r, "completeVerification") /\ reqs[r].res.ok
        /\ profiles[p].user_id = reqs[r].a.userId
        /\ profiles[p].national_id # Null
        /\ getDecryptedNationalId(profiles[p].national_id) = <<reqs[r].a.nationalId>>

\* C28: under any interleaving of resetPassword calls that present the same
\* valid token, at most one call succeeds: a call never succeeds with a token
\* that a call has already changed a password with.
C28_TokenAuthorizesOneChange ==
    [][\A r \in Reqs :
          /\ At(r, "resetPassword", "update")
          /\ reqs'[r].pc = "done" /\ reqs'[r].res.ok
          => reqs[r].a.token \notin consumed]_vars

\* C29: under any interleaving of completeVerification calls on the same
\* account, at most one call succeeds and the others fail with
\* ALREADY_VERIFIED, so the national ID, gender and birthdate are written
\* once: a call commits only on an account that is not fully verified and a
\* profile whose national ID is unset, and a call that ends on a fully
\* verified account it did not verify itself ends with ALREADY_VERIFIED.
C29_VerifiedExactlyOnce ==
    [][\A r \in Reqs :
          /\ (At(r, "completeVerification", "commit") /\ reqs'[r].pc = "welcome"
              => /\ ~users[reqs[r].l.uid].is_verified
                 /\ profiles[reqs[r].l.pid].national_id = Null)
          /\ (/\ reqs[r] # Idle /\ reqs[r].op = "completeVerification"
              /\ reqs[r].pc \notin {"welcome", "done"} /\ reqs'[r].pc = "done"
              /\ reqs[r].a.userId \in DOMAIN users
              /\ users[reqs[r].a.userId].is_verified
              => reqs'[r].res.code = "ALREADY_VERIFIED")]_vars

\* C30: when two register calls with the same e-mail (and phone numbers no
\* account has) have both ended and one of them succeeded, the other one
\* failed with Conflict (409, EMAIL_EXISTS), and exactly one account and one
\* profile exist for that e-mail.
C30_RaceLoserGetsConflict ==
    \A r1, r2 \in Reqs :
        /\ r1 # r2 /\ Done(r1, "register") /\ Done(r2, "register")
        /\ toLowerCase(reqs[r1].a.email) = toLowerCase(reqs[r2].a.email)
        /\ reqs[r1].res.ok
        /\ ProfilesByPhone(reqs[r2].a.phone) = {}
        => /\ reqs[r2].res = EmailExists
           /\ Cardinality(UsersByEmail(toLowerCase(reqs[r1].a.email))) = 1
           /\ \A u \in UsersByEmail(toLowerCase(reqs[r1].a.email)) :
                 Cardinality(ProfilesOf(u)) = 1

\* C31: when two loginWithGoogle calls with valid provider tokens for the
\* same e-mail have both ended, exactly one account exists for that e-mail
\* and both calls returned a token pair for it.
C31_BothFederatedLoginsSucceed ==
    \A r1, r2 \in Reqs :
        /\ r1 # r2 /\ Done(r1, "google") /\ Done(r2, "google")
        /\ reqs[r1].a.answer.valid /\ reqs[r2].a.answer.valid
        /\ reqs[r1].a.answer.email # Null /\ reqs[r2].a.answer.email # Null
        /\ toLowerCase(reqs[r1].a.answer.email) = toLowerCase(reqs[r2].a.answer.email)
        => /\ Cardinality(UsersByEmail(toLowerCase(reqs[r1].a.answer.email))) = 1
           /\ reqs[r1].res.ok /\ reqs[r2].res.ok
           /\ reqs[r1].res.body.user.id = reqs[r2].res.body.user.id

\* C32: a login identifier matches at most one account under the resolver's
\* matching rule: whenever login resolves a phone identifier to an account,
\* the profiles its lookup matches all belong to that one account.
C32_IdentifierResolvesUniquely ==
    [][\A r \in Reqs :
          At(r, "login", "findProfile") /\ reqs'[r].pc = "findUser"
          => Cardinality({profiles[p].user_id :
                            p \in ProfilesByLoginPhone(reqs[r].a.identifier)}) = 1]_vars

\* C33: in every reachable state an account with is_verified = true also has
\* email_verified = true, whether it was registered locally or provisioned
\* by a federated login.
C33_FullyVerifiedImpliesEmailVerified ==
    \A u \in DOMAIN users : users[u].is_verified => users[u].email_verified

C33_Witness ==
    \E u \in DOMAIN users, r \in Reqs :
        /\ Done(r, "completeVerification") /\ reqs[r].res.ok /\ reqs[r].a.userId = u
        /\ users[u].origin = "register" /\ users[u].is_verified /\ users[u].email_verified

\* whether the profile of account u has all three verification fields
ProfileComplete(ps, u) ==
    \E p \in DOMAIN ps : ps[p].user_id = u /\ isVerificationComplete(ps[p])

\* C34: in every committed state an account has is_verified = true if and
\* only if its profile's national ID, gender and birthdate are all non-null,
\* also when a write of completeVerification fails; no step changes the flag
\* without the fields or the fields without the flag.
C34_FlagMatchesFields ==
    \A u \in DOMAIN users : users[u].is_verified <=> ProfileComplete(profiles, u)

ResetAccount == CHOOSE u \in DOMAIN users : users[u].email = EmailA1
HasReset == consumed # {}

\* a finished login call that named the e-mail address of account u
LoggedInAs(r, u) ==
    /\ Done(r, "login")
    /\ includes(reqs[r].a.identifier, "@")
    /\ SameIgnoringCase(users[u].email, reqs[r].a.identifier)

InvalidCredentials(res) ==
    ~res.ok /\ res.status = 401 /\ res.code = "INVALID_CREDENTIALS"

C36_BudgetMinAtMostMax ==
    \A p \in DOMAIN profiles :
        (profiles[p].preferred_budget_min # Null /\ profiles[p].preferred_budget_max # Null)
            => profiles[p].preferred_budget_min[1] <= profiles[p].preferred_budget_max[1]

\* the step that ends call r
Ends(r, op) == reqs[r].op = op /\ reqs[r].pc # "done" /\ reqs'[r].pc = "done"

\* the four calls of the onboarding sequence, each ending as the next one needs
OnboardingStep(r) ==
    /\ (Ends(r, "register") /\ reqs'[r].res.ok)
         => \E u \in DOMAIN users' \ DOMAIN users :
               /\ ~users'[u].email_verified /\ ~users'[u].is_verified
               /\ \E p \in DOMAIN profiles' : profiles'[p].user_id = u
    /\ \A u \in DOMAIN users :
         /\ (Ends(r, "sendVerificationEmail") /\ reqs[r].a.userId = u
             /\ ~users[u].email_verified)
              => /\ reqs'[r].res.ok
                 /\ users'[u].email_verification_token_hash = hashToken(Len(minted))
                 /\ users'[u].email_verification_token_expires
                        = <<minted[Len(minted)] + VerifyTokenTtl>>
         /\ (Ends(r, "verifyEmail")
             /\ users[u].email_verification_token_hash = hashToken(reqs[r].a.token)
             /\ now <= users[u].email_verification_token_expires[1])
              => reqs'[r].res.ok /\ users'[u].email_verified
         /\ (Ends(r, "completeVerification") /\ reqs[r].a.userId = u
             /\ users[u].email_verified /\ ProfilesOf(u) # {}
             /\ (reqs[r].pc = "find" => ~users[u].is_verified))
              => /\ reqs'[r].res.ok
                 /\ users'[u].email_verified /\ users'[u].is_verified

\* C37: with calls made one at a time, register leaves an account that has
\* verified nothing; sendVerificationEmail for it succeeds and stores the
\* emailed token with an expiry 24 hours after it was minted; verifyEmail with
\* the stored token, no later than that expiry, succeeds and sets
\* email_verified; completeVerification for an account with a verified e-mail
\* then succeeds and leaves email_verified = is_verified = true.
C37_OnboardingSucceedsStepByStep ==
    [][\A r \in Reqs : OnboardingStep(r)]_vars

\* C37 witness: completeVerification has succeeded for a registered account
\* whose e-mail was verified with an emailed token after an hour had passed.
C37_Witness ==
    \E r \in Reqs : \E t \in Tokens :
        /\ Done(r, "completeVerification") /\ reqs[r].res.ok
        /\ users[reqs[r].a.userId].origin = "register"
        /\ users[reqs[r].a.userId].email_verified
        /\ users[reqs[r].a.userId].is_verified
        /\ <<"verify", t, "used">> \in retired
        /\ now > minted[t]

\* account u has just become an account with a verified e-mail address
BecomesEmailVerified(u) ==
    /\ users'[u].email_verified
    /\ u \in DOMAIN users => ~users[u].email_verified

\* C38: an account comes to have email_verified = true only in the step in
\* which verifyEmail succeeds for it (its token having passed the lookup and
\* the expiry check), or in the step that commits its provisioning by a
\* loginWithGoogle call to which the provider reported email_verified = true.
C38_EmailVerifiedOnlyWhenProven ==
    [][\A u \in DOMAIN users' :
          BecomesEmailVerified(u)
          => \E r \in Reqs :
                \/ /\ At(r, "verifyEmail", "update") /\ reqs[r].l.uid = u
                   /\ reqs'[r].pc = "done" /\ reqs'[r].res.ok
                \/ /\ At(r, "google", "commit") /\ reqs[r].l.uid = u
                   /\ reqs'[r].pc = "reload"
                   /\ reqs[r].a.answer.email_verified]_vars

\* C40: in every reachable state, whatever the interleaving of
\* sendVerificationEmail and verifyEmail calls, an account with
\* email_verified = true has a null verification token hash and expiry.
C40_VerifiedHoldsNoToken ==
    \A u \in DOMAIN users :
        users[u].email_verified
        => /\ users[u].email_verification_token_hash = Null
           /\ users[u].email_verification_token_expires = Null

\* history: token t was minted and stored by forgotPassword; it is the stored
\* reset token of an account, or was used up by resetPassword, or was
\* overwritten by a later reset token
MintedByForgotPassword(t) ==
    \/ \E u \in DOMAIN users : users[u].reset_token_hash = hashToken(t)
    \/ t \in consumed
    \/ <<"reset", t, "superseded">> \in retired

\* history: token t was minted and stored by sendVerificationEmail
MintedBySendVerification(t) ==
    \/ \E u \in DOMAIN users : users[u].email_verification_token_hash = hashToken(t)
    \/ <<"verify", t, "used">> \in retired
    \/ <<"verify", t, "superseded">> \in retired

TokenKindStep(r) ==
    /\ (At(r, "forgotPassword", "update") /\ reqs'[r].pc = "send")
         => MintedByForgotPassword(reqs[r].l.token)'
    /\ (At(r, "sendVerificationEmail", "update") /\ reqs'[r].pc = "send")
         => MintedBySendVerification(reqs[r].l.token)'
    /\ \A t \in Tokens :
         /\ MintedByForgotPassword(t) => MintedByForgotPassword(t)'
         /\ MintedBySendVerification(t) => MintedBySendVerification(t)'
    /\ (Ends(r, "verifyEmail") /\ MintedByForgotPassword(reqs[r].a.token))
         => /\ ~reqs'[r].res.ok
            /\ \A u \in DOMAIN users : users'[u].email_verified = users[u].email_verified
    /\ (Ends(r, "resetPassword") /\ MintedBySendVerification(reqs[r].a.token))
         => /\ ~reqs'[r].res.ok
            /\ \A u \in DOMAIN users : users'[u].password_hash = users[u].password_hash

\* C39: a token that forgotPassword minted stays a reset token for good, and
\* a verifyEmail call given it fails and verifies no e-mail address; a token
\* that sendVerificationEmail minted stays a verification token for good, and
\* a resetPassword call given it fails and changes no password.
C39_TokenKindsAreSeparate ==
    [][\A r \in Reqs : TokenKindStep(r)]_vars

\* C39 witness: verifyEmail was given the reset token an account holds and
\* answered that the token is invalid.
C39_Witness ==
    \E r \in Reqs : \E u \in DOMAIN users :
        /\ Done(r, "verifyEmail")
        /\ users[u].reset_token_hash = hashToken(reqs[r].a.token)
        /\ ~reqs[r].res.ok /\ reqs[r].res.code = "INVALID_VERIFICATION_TOKEN"

====
